---- MODULE Spec2Model ----
(***************************************************************************)
(* Conversation context engine of the personal AI assistant:               *)
(*   - utils/token_manager.py    TokenManager (estimator and trimmer)      *)
(*   - database/models.py        Conversation and Message tables           *)
(*   - database/repository.py    ConversationRepository (the store)        *)
(*   - database/connection.py    Database.session                          *)
(*   - core/result.py, core/exceptions.py   Result and the exceptions       *)
(*   - clients/openai_client.py  OpenAIClient and its error mapper         *)
(*   - clients/tavily_search.py  TavilySearchManager.search                *)
(*   - clients/telegram_bot.py   the handlers of TelegramBot               *)
(* SpecTrim drives the trimmer over bounded histories and budgets, Spec    *)
(* drives the repository from several database sessions whose SQL          *)
(* statements interleave, SpecClient calls the OpenAI client against every *)
(* behaviour of the provider, and SpecBot runs the handlers of the bot one *)
(* update after the other, as the application dispatches them. SpecCore    *)
(* calls the constructors of Result and of the TokenManager and the token  *)
(* estimator, SpecRepo calls the repository from a single session, and     *)
(* SpecClear interleaves appends, reads and clears of one conversation.    *)
(***************************************************************************)
EXTENDS Integers, Sequences, FiniteSets, TLC

(* ------------------------------ bounds --------------------------------- *)
MaxLen == 3
MaxBudget == 20
MaxCalls == 2

(* ------------------------- messages and tokens ------------------------- *)
Roles == {"system", "user", "assistant"}

Contents == {"", "what is the weather like in Paris today?"}

Msgs == [role : Roles, content : Contents]

Histories == UNION {[1..n -> Msgs] : n \in 0..MaxLen}

Budgets == 0..MaxBudget

\* len(self.encoding.encode(content)): the number of tokens of a content
EncodedLen(content) ==
    CASE content = "" -> 0
      [] content = "hi" -> 1
      [] content = "what is the weather like in Paris today?" -> 9
      [] content = "hello" -> 1
      [] content = "You are a helpful assistant." -> 6
      [] content = "/imagine a cat" -> 5
      [] content = "[Generated image for: \"a cat\"]" -> 9
      [] content = "/search news" -> 3
      [] content = "Search results for: news\n\nhello" -> 8

\* dict.get(key, default)
get(message, key, default) ==
    IF key \in DOMAIN message THEN message[key] ELSE default

RECURSIVE SumEncoded(_)
SumEncoded(msgs) ==
    IF msgs = <<>> THEN 0
    ELSE EncodedLen(get(Head(msgs), "content", "")) + SumEncoded(Tail(msgs))

\* variant of estimate_tokens that adds the completion overhead in the loop
estimate_PerMessage(msgs) == (4 + 2) * Len(msgs) + SumEncoded(msgs)

estimate_tokens(msgs) == 4 * Len(msgs) + SumEncoded(msgs) + 2

RECURSIVE Reverse(_)
Reverse(s) == IF s = <<>> THEN <<>> ELSE Reverse(Tail(s)) \o <<Head(s)>>

IsSystem(m) == m.role = "system"

NotSystem(m) == m.role # "system"

SystemMessages(msgs) == SelectSeq(msgs, IsSystem)

NonSystemMessages(msgs) == SelectSeq(msgs, NotSystem)


(* --------------------- TokenManager.trim_messages_to_fit --------------- *)
\* variant of Walk that skips a candidate that does not fit and goes on
RECURSIVE Walk_Continue(_, _, _)
Walk_Continue(rev, current_tokens, max_tokens) ==
    IF rev = <<>> THEN <<>>
    ELSE LET needed == estimate_tokens(<<Head(rev)>>)
         IN  IF current_tokens + needed <= max_tokens
             THEN <<Head(rev)>> \o Walk_Continue(Tail(rev), current_tokens + needed, max_tokens)
             ELSE Walk_Continue(Tail(rev), current_tokens, max_tokens)

\* variant of Walk that tests the running total before adding the candidate
RECURSIVE Walk_CheckBefore(_, _, _)
Walk_CheckBefore(rev, current_tokens, max_tokens) ==
    IF rev = <<>> THEN <<>>
    ELSE LET needed == estimate_tokens(<<Head(rev)>>)
         IN  IF current_tokens <= max_tokens
             THEN <<Head(rev)>> \o Walk_CheckBefore(Tail(rev), current_tokens + needed, max_tokens)
             ELSE <<>>

\* the loop over the reversed candidates: accept while the running total
\* stays within max_tokens, stop at the first candidate that does not fit
RECURSIVE Walk(_, _, _)
Walk(rev, current_tokens, max_tokens) ==
    IF rev = <<>> THEN <<>>
    ELSE LET needed == estimate_tokens(<<Head(rev)>>)
         IN  IF current_tokens + needed <= max_tokens
             THEN <<Head(rev)>> \o Walk(Tail(rev), current_tokens + needed, max_tokens)
             ELSE <<>>

\* variant of the trimmer that drops the system messages when they alone
\* exceed the budget
trim_BudgetedSystem(msgs, max_tokens, preserve_system) ==
    IF msgs = <<>> THEN <<>>
    ELSE LET pinned == IF preserve_system THEN SystemMessages(msgs) ELSE <<>>
             system_messages == IF estimate_tokens(pinned) <= max_tokens
                                THEN pinned ELSE <<>>
             candidates == IF preserve_system THEN NonSystemMessages(msgs) ELSE msgs
             trimmed_messages == Walk(Reverse(candidates),
                                      estimate_tokens(system_messages), max_tokens)
         IN  system_messages \o Reverse(trimmed_messages)

\* variant of the trimmer that walks the candidates oldest first
trim_OldestFirst(msgs, max_tokens, preserve_system) ==
    IF msgs = <<>> THEN <<>>
    ELSE LET system_messages == IF preserve_system THEN SystemMessages(msgs) ELSE <<>>
             candidates == IF preserve_system THEN NonSystemMessages(msgs) ELSE msgs
             trimmed_messages == Walk(candidates,
                                      estimate_tokens(system_messages), max_tokens)
         IN  system_messages \o trimmed_messages

\* variant of the trimmer that does not restore the original order
trim_NoRestore(msgs, max_tokens, preserve_system) ==
    IF msgs = <<>> THEN <<>>
    ELSE LET system_messages == IF preserve_system THEN SystemMessages(msgs) ELSE <<>>
             candidates == IF preserve_system THEN NonSystemMessages(msgs) ELSE msgs
             trimmed_messages == Walk(Reverse(candidates),
                                      estimate_tokens(system_messages), max_tokens)
         IN  system_messages \o trimmed_messages

trim_messages_to_fit(msgs, max_tokens, preserve_system) ==
    IF msgs = <<>> THEN <<>>
    ELSE LET system_messages == IF preserve_system THEN SystemMessages(msgs) ELSE <<>>
             candidates == IF preserve_system THEN NonSystemMessages(msgs) ELSE msgs
             trimmed_messages == Walk(Reverse(candidates),
                                      estimate_tokens(system_messages), max_tokens)
         IN  system_messages \o Reverse(trimmed_messages)

\* the caller's list object after the call: with preserve_system the name
\* `messages` is rebound to a fresh list before messages.reverse(); without
\* it the reverse is applied in place to the list that was passed in
ListAfterTrim(msgs, preserve_system) ==
    IF msgs = <<>> \/ preserve_system THEN msgs ELSE Reverse(msgs)


(* ------------------- database/models.py and repository.py -------------- *)
MaxMessageId == 2

\* datetime.now(UTC) as evaluated once, when models.py is imported: the value
\* of every created_at, updated_at and timestamp default of the process
ImportTime == 0

Sessions == {"s1", "s2"}

Chats == {"42", "43"}

NoUser == "None"

UserIds == {NoUser, "alice"}

StoreRoles == {"user", "assistant"}

StoreContents == {"hi"}

\* Python truthiness of the user_id argument: None and "" are falsy
\* variant of Truthy that takes the empty string for a user_id
Truthy_NotNone(user_id) == user_id # NoUser

Truthy(user_id) == user_id # NoUser /\ user_id # ""

\* variant of FindByChatId that filters on the wrong column
FindByChatId_WrongColumn(convs, chat_id) ==
    LET Hit(row) == row.user_id = chat_id
        hits == SelectSeq(convs, Hit)
    IN  IF hits = <<>> THEN <<>> ELSE <<hits[1]>>

\* session.query(Conversation).filter_by(chat_id=chat_id).first()
FindByChatId(convs, chat_id) ==
    LET Hit(row) == row.chat_id = chat_id
        hits == SelectSeq(convs, Hit)
    IN  IF hits = <<>> THEN <<>> ELSE <<hits[1]>>

\* variant of UniqueViolation for a chat_id column declared without unique=True
UniqueViolation_Off(convs, chat_id) == FALSE

\* chat_id = Column(String(50), unique=True, ...): an INSERT of a second row
\* with the same chat_id is rejected by the database
UniqueViolation(convs, chat_id) ==
    \E i \in 1..Len(convs) : convs[i].chat_id = chat_id

\* the row INSERTed for Conversation(chat_id=chat_id, user_id=user_id); the
\* column defaults datetime.now(UTC) were evaluated once, at import
NewConversation(convs, chat_id, user_id, import_time) ==
    [id |-> Len(convs) + 1, chat_id |-> chat_id, user_id |-> user_id,
     created_at |-> import_time, updated_at |-> import_time]

\* UPDATE conversations SET user_id=?, updated_at=<onupdate> WHERE id=?
UpdateUserId(convs, id, user_id, import_time) ==
    [i \in 1..Len(convs) |->
        IF convs[i].id = id
        THEN [convs[i] EXCEPT !.user_id = user_id, !.updated_at = import_time]
        ELSE convs[i]]

RowById(convs, id) == (CHOOSE i \in 1..Len(convs) : convs[i].id = id)

MaxId(rows) ==
    IF rows = <<>> THEN 0
    ELSE CHOOSE m \in {rows[i].id : i \in 1..Len(rows)} :
            \A i \in 1..Len(rows) : rows[i].id <= m

\* variant of NewMessage that writes the id of the next conversation
NewMessage_NextParent(msgs, conversation_id, role, content, import_time) ==
    [id |-> MaxId(msgs) + 1, conversation_id |-> conversation_id + 1,
     role |-> role, content |-> content, timestamp |-> import_time]

\* the row INSERTed for Message(conversation_id=..., role=..., content=...)
NewMessage(msgs, conversation_id, role, content, import_time) ==
    [id |-> MaxId(msgs) + 1, conversation_id |-> conversation_id,
     role |-> role, content |-> content, timestamp |-> import_time]

\* the Message rows of one conversation, in insertion order
MessagesOf(msgs, conversation_id) ==
    LET Mine(row) == row.conversation_id = conversation_id
    IN  SelectSeq(msgs, Mine)

\* variant of DeleteMessages that filters on the message id
DeleteMessages_ById(msgs, conversation_id) ==
    LET Other(row) == row.id # conversation_id
    IN  SelectSeq(msgs, Other)

\* variant of DeleteMessages that leaves the newest row of the conversation
DeleteMessages_KeepNewest(msgs, conversation_id) ==
    LET Kept(row) == \/ row.conversation_id # conversation_id
                     \/ row.id = MaxId(MessagesOf(msgs, conversation_id))
    IN  SelectSeq(msgs, Kept)

\* session.query(Message).filter_by(conversation_id=...).delete()
DeleteMessages(msgs, conversation_id) ==
    LET Other(row) == row.conversation_id # conversation_id
    IN  SelectSeq(msgs, Other)

ToDict(row) == [role |-> row.role, content |-> row.content]

Permutations_(n) ==
    {p \in [1..n -> 1..n] : \A i, j \in 1..n : p[i] = p[j] => i = j}

\* the results ORDER BY messages.timestamp allows: every arrangement of the
\* rows with non-decreasing timestamp; rows with equal timestamps come in an
\* order the database does not define
OrderByTimestamp(rows) ==
    {[i \in 1..Len(rows) |-> rows[p[i]]] :
        p \in {q \in Permutations_(Len(rows)) :
                 \A i, j \in 1..Len(rows) :
                    i < j => rows[q[i]].timestamp <= rows[q[j]].timestamp}}

\* query.all() turned into the list of {role, content} dicts
QueryResults(msgs, conversation_id) ==
    {[i \in 1..Len(rows) |-> ToDict(rows[i])] :
        rows \in OrderByTimestamp(MessagesOf(msgs, conversation_id))}

IdleSession ==
    [pc |-> "idle", op |-> "none", chat |-> "", user_id |-> NoUser,
     role |-> "", content |-> "", conv |-> <<>>, first |-> <<>>]

\* no result is waiting
NoCall ==
    [op |-> "none", chat |-> "", user_id |-> NoUser, outcome |-> "none",
     conv |-> <<>>, ret |-> <<>>, first |-> <<>>, rowcount |-> 0]

(* ------------------ core/exceptions.py and core/result.py -------------- *)
\* None, where the code holds a string or nothing
NoValue == "None"

\* an exception object: its class and the text str() gives for it
Exc(type, text) == [type |-> type, text |-> text]

\* no exception object (error=None)
NoError == Exc("NoneType", NoValue)

str(error) == error.text

\* isinstance for the classes used here: none of them derives from another
\* class that the code tests for
isinstance(error, cls) == error.type = cls

\* str.lower() on one character
LowerChar(c) ==
    CASE c = "A" -> "a"
      [] c = "B" -> "b"
      [] c = "C" -> "c"
      [] c = "D" -> "d"
      [] c = "E" -> "e"
      [] c = "F" -> "f"
      [] c = "G" -> "g"
      [] c = "H" -> "h"
      [] c = "I" -> "i"
      [] c = "J" -> "j"
      [] c = "K" -> "k"
      [] c = "L" -> "l"
      [] c = "M" -> "m"
      [] c = "N" -> "n"
      [] c = "O" -> "o"
      [] c = "P" -> "p"
      [] c = "Q" -> "q"
      [] c = "R" -> "r"
      [] c = "S" -> "s"
      [] c = "T" -> "t"
      [] c = "U" -> "u"
      [] c = "V" -> "v"
      [] c = "W" -> "w"
      [] c = "X" -> "x"
      [] c = "Y" -> "y"
      [] c = "Z" -> "z"
      [] OTHER -> c

\* str.lower()
RECURSIVE lower(_)
lower(s) == IF Len(s) = 0 THEN "" ELSE LowerChar(SubSeq(s, 1, 1)) \o lower(Tail(s))

\* sub in s
In(sub, s) ==
    \E i \in 1..(Len(s) - Len(sub) + 1) : SubSeq(s, i, i + Len(sub) - 1) = sub

IsSpace(c) == c = " " \/ c = "\n"

\* str.lstrip() and str.strip()
RECURSIVE lstrip(_)
lstrip(s) ==
    IF Len(s) > 0 /\ IsSpace(SubSeq(s, 1, 1)) THEN lstrip(Tail(s)) ELSE s

RECURSIVE rstrip(_)
rstrip(s) ==
    IF Len(s) > 0 /\ IsSpace(SubSeq(s, Len(s), Len(s)))
    THEN rstrip(SubSeq(s, 1, Len(s) - 1)) ELSE s

strip(s) == rstrip(lstrip(s))

\* metadata=None, and a dict given as metadata
NoMetadata == [type |-> "NoneType"]

Dict(items) == [type |-> "dict", items |-> items]

\* Result.ok(value, metadata)
ok(value, metadata) ==
    [success |-> TRUE, value |-> value, error |-> NoError,
     error_message |-> NoValue, metadata |-> metadata]

\* "error_message or (...)": None and the empty string are falsy
Falsy(text) == text = NoValue \/ text = ""

fail_MessageIfNotNone(error, error_message, metadata) ==
    [success |-> FALSE, value |-> NoValue, error |-> error,
     error_message |-> IF error_message # NoValue THEN error_message
                       ELSE IF error # NoError THEN str(error)
                       ELSE "Unknown error",
     metadata |-> metadata]

\* Result.fail(error, error_message, metadata): an exception object is
\* always truthy
fail(error, error_message, metadata) ==
    [success |-> FALSE, value |-> NoValue, error |-> error,
     error_message |-> IF ~Falsy(error_message) THEN error_message
                       ELSE IF error # NoError THEN str(error)
                       ELSE "Unknown error",
     metadata |-> metadata]

\* Result.ok(value) as the clients' results are read: by success, value,
\* error and error_message
Result_ok(value) ==
    [success |-> TRUE, value |-> value, error |-> NoError,
     error_message |-> NoValue]

\* Result.fail(error=error): an exception object is always truthy
Result_fail(error) ==
    [success |-> FALSE, value |-> NoValue, error |-> error,
     error_message |-> IF error # NoError THEN str(error) ELSE "Unknown error"]

(* ----------------------- clients/openai_client.py ---------------------- *)
\* message texts of the faults a provider call raises
FaultTexts ==
    {"Rate limit exceeded", "Authentication Error", "Quota: unauthorized",
     "You exceeded your current quota", "Connection reset", ""}

\* classes of the faults a provider call raises: the two structured types of
\* the openai package the code imports, and any other exception
ProviderFaultTypes == {"AuthenticationError", "RateLimitError", "Exception"}

ProviderFaults == {Exc(t, x) : t \in ProviderFaultTypes, x \in FaultTexts}

\* what running a piece of code gives: a returned value or a raised exception
Returns(v) == [raised |-> FALSE, value |-> v, exc |-> NoError]

Raises(e) == [raised |-> TRUE, value |-> NoValue, exc |-> e]

\* variant of _handle_api_error whose last branch is missing
handle_NoDefault(error) ==
    LET error_str == lower(str(error))
    IN  IF \/ isinstance(error, "AuthenticationError")
           \/ In("authentication", error_str)
           \/ In("auth", error_str)
        THEN Result_fail(Exc("APIAuthenticationError",
                             "Authentication failed with OpenAI API"))
        ELSE IF \/ isinstance(error, "RateLimitError")
                \/ In("rate limit", error_str)
                \/ In("quota", error_str)
        THEN Result_fail(Exc("APIRateLimitError",
                             "Rate limit exceeded with OpenAI API"))
        ELSE Result_fail(NoError)

\* variant of _handle_api_error that finds a rate limit by the type only
handle_RateLimitByType(error) ==
    LET error_str == lower(str(error))
    IN  IF \/ isinstance(error, "AuthenticationError")
           \/ In("authentication", error_str)
           \/ In("auth", error_str)
        THEN Result_fail(Exc("APIAuthenticationError",
                             "Authentication failed with OpenAI API"))
        ELSE IF isinstance(error, "RateLimitError")
        THEN Result_fail(Exc("APIRateLimitError",
                             "Rate limit exceeded with OpenAI API"))
        ELSE Result_fail(Exc("APIError",
                             "Unexpected error with OpenAI API: " \o str(error)))

\* OpenAIClient._handle_api_error
_handle_api_error(error) ==
    LET error_str == lower(str(error))
    IN  IF \/ isinstance(error, "AuthenticationError")
           \/ In("authentication", error_str)
           \/ In("auth", error_str)
        THEN Result_fail(Exc("APIAuthenticationError",
                             "Authentication failed with OpenAI API"))
        ELSE IF \/ isinstance(error, "RateLimitError")
                \/ In("rate limit", error_str)
                \/ In("quota", error_str)
        THEN Result_fail(Exc("APIRateLimitError",
                             "Rate limit exceeded with OpenAI API"))
        ELSE Result_fail(Exc("APIError",
                             "Unexpected error with OpenAI API: " \o str(error)))

\* what client.chat.completions.create does: it raises a fault, or returns a
\* completion with no choice or with one choice (choices[0].message.content,
\* choices[0].finish_reason and the function the tool call names, if any)
ToolCalls == {"none", "search_web", "other_function", "bad_arguments"}

ChatResponses ==
    {[kind |-> "raise", fault |-> f, choices |-> 0, content |-> NoValue,
      finish_reason |-> "stop", tool_calls |-> "none"] : f \in ProviderFaults}
    \cup
    {[kind |-> "completion", fault |-> NoError, choices |-> 0,
      content |-> NoValue, finish_reason |-> "stop", tool_calls |-> "none"]}
    \cup
    [kind : {"completion"}, fault : {NoError}, choices : {1},
     content : {NoValue, " hello "}, finish_reason : {"stop", "length"},
     tool_calls : ToolCalls]

\* no second request is made
NoResponse ==
    [kind |-> "none", fault |-> NoError, choices |-> 0, content |-> NoValue,
     finish_reason |-> "stop", tool_calls |-> "none"]

\* OpenAIClient._process_tool_calls; second is what the second request gives
_process_tool_calls(tool_calls, second) ==
    IF tool_calls = "bad_arguments"
    THEN Raises(Exc("JSONDecodeError",
                    "Expecting value: line 1 column 1 (char 0)"))
    ELSE IF tool_calls # "search_web" THEN Returns("")
    ELSE IF second.kind = "raise" THEN Raises(second.fault)
    ELSE IF second.choices = 0
    THEN Raises(Exc("NoChoicesError",
                    "No choices returned from second OpenAI API call"))
    ELSE IF second.content = NoValue
    THEN Raises(Exc("AttributeError",
                    "'NoneType' object has no attribute 'strip'"))
    ELSE Returns(strip(second.content))

\* the tool-call branch of create_chat_completion is taken
CallsTool(enable_web_search, first) ==
    /\ first.kind = "completion"
    /\ first.choices > 0
    /\ first.tool_calls # "none"
    /\ enable_web_search

\* a second request is sent
SendsSecond(enable_web_search, first) ==
    CallsTool(enable_web_search, first) /\ first.tool_calls = "search_web"

TruncationWarning ==
    "\n\n [WARNING]: The response was truncated due to max_tokens limit."

\* the try block of create_chat_completion
CompletionBody(messages, enable_web_search, first, second) ==
    IF first.kind = "raise" THEN Raises(first.fault)
    ELSE IF first.choices = 0
    THEN Returns(Result_fail(Exc("NoChoicesError",
                                 "No choices returned from OpenAI API")))
    ELSE
        LET reply ==
                IF CallsTool(enable_web_search, first)
                THEN _process_tool_calls(first.tool_calls, second)
                ELSE Returns(IF first.content # NoValue /\ first.content # ""
                             THEN strip(first.content) ELSE "")
        IN  IF reply.raised THEN reply
            ELSE Returns(Result_ok(IF first.finish_reason = "length"
                                   THEN reply.value \o TruncationWarning
                                   ELSE reply.value))

\* variant of create_chat_completion without the except clause
create_NoExcept(messages, enable_web_search, first, second) ==
    CompletionBody(messages, enable_web_search, first, second)

\* OpenAIClient.create_chat_completion
create_chat_completion(messages, enable_web_search, first, second) ==
    LET body == CompletionBody(messages, enable_web_search, first, second)
    IN  IF body.raised THEN Returns(_handle_api_error(body.exc)) ELSE body

\* the audio file given to transcribe_audio
AudioFiles == {"missing", "too_large", "ok"}

\* the paths given to transcribe_audio called on its own: also a file of
\* exactly max_audio_size_mb
ClientAudioFiles == AudioFiles \cup {"at_limit"}

\* what client.audio.transcriptions.create does
TranscriptionResponses ==
    {[kind |-> "raise", fault |-> f, text |-> NoValue] : f \in ProviderFaults}
    \cup {[kind |-> "transcription", fault |-> NoError, text |-> "hi"]}

\* the files behind the paths: os.path.exists(path), and the size of an
\* existing file in MB; OpenAIConfig.max_audio_size_mb is 25
exists(path) == path # "missing"

file_size_mb(path) ==
    CASE path = "too_large" -> 26
      [] path = "at_limit" -> 25
      [] path = "ok" -> 1

max_audio_size_mb == 25

\* variant of TooLarge that rejects a file of exactly the limit
TooLarge_AtLimit(size_mb) == size_mb >= max_audio_size_mb

\* file_size_mb > self.config.max_audio_size_mb
TooLarge(size_mb) == size_mb > max_audio_size_mb

\* the number of calls of client.audio.transcriptions.create that
\* transcribe_audio makes
transcription_calls(audio_file_path) ==
    IF ~exists(audio_file_path) THEN 0
    ELSE IF TooLarge(file_size_mb(audio_file_path)) THEN 0
    ELSE 1

\* OpenAIClient.transcribe_audio
transcribe_audio(audio_file_path, response) ==
    IF ~exists(audio_file_path)
    THEN Returns(Result_fail(Exc("AudioFileNotFoundError",
                                 "Audio file not found: " \o audio_file_path)))
    ELSE IF TooLarge(file_size_mb(audio_file_path))
    THEN Returns(Result_fail(Exc("AudioFileTooLargeError",
             "Audio file size (" \o ToString(file_size_mb(audio_file_path))
                 \o ".00MB) exceeds 25.0MB limit")))
    ELSE IF response.kind = "raise"
    THEN IF isinstance(response.fault, "AuthenticationError")
         THEN Returns(Result_fail(Exc("APIAuthenticationError",
                  "Authentication failed during transcription")))
         ELSE IF isinstance(response.fault, "RateLimitError")
         THEN Returns(Result_fail(Exc("APIRateLimitError",
                  "Rate limit exceeded during transcription")))
         ELSE Returns(Result_fail(Exc("APIError",
                  "Unexpected error during transcription: "
                      \o str(response.fault))))
    ELSE Returns(Result_ok(response.text))

Prompts == {"", " ", "a cat"}

\* what client.images.generate does: len(response.data) and data[0].url
ImageResponses ==
    {[kind |-> "raise", fault |-> f, data |-> 0, url |-> NoValue] :
        f \in ProviderFaults}
    \cup
    {[kind |-> "images", fault |-> NoError, data |-> 0, url |-> NoValue],
     [kind |-> "images", fault |-> NoError, data |-> 1, url |-> NoValue],
     [kind |-> "images", fault |-> NoError, data |-> 1,
      url |-> "https://images.example/1.png"]}

\* variant of image_except that classifies as _handle_api_error does
image_except_ByText(fault) == Returns(_handle_api_error(fault))

\* the except clauses of generate_image
image_except(fault) ==
    IF isinstance(fault, "AuthenticationError")
    THEN Returns(Result_fail(Exc("APIAuthenticationError",
             "Authentication failed with OpenAI image generation API")))
    ELSE IF isinstance(fault, "RateLimitError")
    THEN Returns(Result_fail(Exc("APIRateLimitError",
             "Rate limit exceeded with OpenAI image generation API")))
    ELSE Returns(Result_fail(Exc("APIError",
             "Unexpected error during image generation: " \o str(fault))))

\* OpenAIClient.generate_image
generate_image(prompt, response) ==
    IF prompt = "" \/ strip(prompt) = ""
    THEN Returns(Result_fail(Exc("ImageGenerationError",
                                 "Empty or invalid prompt provided")))
    ELSE IF response.kind = "raise" THEN image_except(response.fault)
    ELSE IF response.data = 0
    THEN Returns(Result_fail(Exc("ImageGenerationError",
                                 "No images generated from API")))
    ELSE IF response.url = NoValue
    THEN image_except(Exc("TypeError",
                          "'NoneType' object is not subscriptable"))
    ELSE Returns(Result_ok(response.url))

(* ----------------------- clients/tavily_search.py ---------------------- *)
\* what TavilyClient.search does: it raises a fault or returns a result dict;
\* "uninitialized" is a manager whose client is None
SearchResponses ==
    {[kind |-> "raise", fault |-> Exc(t, x)] :
        t \in {"InvalidAPIKeyError", "UsageLimitExceededError",
               "BadRequestError", "Exception"},
        x \in {"Unauthorized: invalid API key tvly-SECRET"}}
    \cup {[kind |-> "results", fault |-> NoError],
          [kind |-> "uninitialized", fault |-> NoError]}

\* TavilySearchManager.search
search(query, response) ==
    IF response.kind = "uninitialized"
    THEN Result_fail(Exc("APIError", "Tavily Search client is not initialized"))
    ELSE IF response.kind = "raise"
    THEN IF isinstance(response.fault, "InvalidAPIKeyError")
         THEN Result_fail(Exc("APIAuthenticationError",
                  "Authentication failed with Tavily API: "
                      \o str(response.fault)))
         ELSE IF isinstance(response.fault, "UsageLimitExceededError")
         THEN Result_fail(Exc("APIRateLimitError",
                  "Rate limit exceeded with Tavily API: "
                      \o str(response.fault)))
         ELSE IF isinstance(response.fault, "BadRequestError")
         THEN Result_fail(Exc("APIError",
                  "Bad request error with Tavily API: " \o str(response.fault)))
         ELSE Result_fail(Exc("APIError",
                  "Unexpected error during search: " \o str(response.fault)))
    ELSE Result_ok("results")

\* OpenAIClient.search_web with a tavily_manager: the dict it returns, as its
\* set of keys and the value under "error"
search_web(query, response) ==
    LET result == search(query, response)
    IN  IF ~result.success
        THEN [keys |-> {"error", "results"}, error |-> result.error_message]
        ELSE [keys |-> {"query", "results"}, error |-> NoValue]

(* ------------------------ clients/telegram_bot.py ---------------------- *)
DefaultMessage == "Sorry, something went wrong. Please try again later."

\* TelegramBot._get_user_friendly_error_message
_get_user_friendly_error_message(error, default_message) ==
    IF error = NoError THEN default_message
    ELSE IF isinstance(error, "APIAuthenticationError")
    THEN "I'm having trouble connecting to my services. Please contact support."
    ELSE IF isinstance(error, "APIRateLimitError")
    THEN "I'm receiving too many requests right now. Please try again in a few minutes."
    ELSE IF isinstance(error, "AudioFileNotFoundError")
    THEN "I couldn't find the audio file. Please try sending your message again."
    ELSE IF isinstance(error, "AudioFileTooLargeError")
    THEN "Your voice message is too large. Please send a shorter message (under 25MB)."
    ELSE IF isinstance(error, "ImageGenerationError")
    THEN "I couldn't generate the image. Please try a different description."
    ELSE default_message

SystemPrompt == [role |-> "system", content |-> "You are a helpful assistant."]

\* the database as one value: both tables
Db(convs, msgs) == [conversations |-> convs, messages |-> msgs]

\* variant of get_or_create_conversation that inserts a row without looking
\* for one
get_or_create_AlwaysInserts(db, chat_id, user_id) ==
    Db(Append(db.conversations,
              NewConversation(db.conversations, chat_id, user_id, ImportTime)),
       db.messages)

\* ConversationRepository.get_or_create_conversation run to its end by the
\* only open session: the tables afterwards
get_or_create_conversation(db, chat_id, user_id) ==
    LET found == FindByChatId(db.conversations, chat_id)
    IN  IF found = <<>>
        THEN Db(Append(db.conversations,
                       NewConversation(db.conversations, chat_id, user_id,
                                       ImportTime)),
                db.messages)
        ELSE IF Truthy(user_id) /\ found[1].user_id # user_id
        THEN Db(UpdateUserId(db.conversations, found[1].id, user_id, ImportTime),
                db.messages)
        ELSE db

\* id of the conversation row of chat_id, which exists
ConversationId(db, chat_id) == FindByChatId(db.conversations, chat_id)[1].id

\* ConversationRepository.add_message run to its end
add_message(db, chat_id, role, content) ==
    LET db1 == get_or_create_conversation(db, chat_id, NoUser)
    IN  Db(db1.conversations,
           Append(db1.messages,
                  NewMessage(db1.messages, ConversationId(db1, chat_id), role,
                             content, ImportTime)))

\* ConversationRepository.clear_conversation run to its end
clear_conversation(db, chat_id) ==
    LET db1 == get_or_create_conversation(db, chat_id, NoUser)
    IN  Db(db1.conversations,
           DeleteMessages(db1.messages, ConversationId(db1, chat_id)))

\* the lists ConversationRepository.get_messages can return, the conversation
\* existing already
get_messages(db, chat_id) ==
    QueryResults(db.messages, ConversationId(db, chat_id))

\* limit=None, and an integer given as limit
NoLimit == [given |-> FALSE, n |-> 0]

Limit(n) == [given |-> TRUE, n |-> n]

\* "if limit:": None and 0 are falsy
TruthyLimit(limit) == limit.given /\ limit.n # 0

\* query.limit(n).all() turned into the list of dicts: the first n rows of
\* an order the ORDER BY allows
LimitResults(msgs, conversation_id, n) ==
    {SubSeq(result, 1, IF n < Len(result) THEN n ELSE Len(result)) :
        result \in QueryResults(msgs, conversation_id)}

\* ConversationRepository.get_messages(chat_id, limit) run to its end by
\* the only open session: the tables afterwards and the lists it can return
get_messages_limit(db, chat_id, limit) ==
    LET db1 == get_or_create_conversation(db, chat_id, NoUser)
        conversation_id == ConversationId(db1, chat_id)
    IN  [db |-> db1,
         returns |-> IF TruthyLimit(limit)
                     THEN LimitResults(db1.messages, conversation_id, limit.n)
                     ELSE QueryResults(db1.messages, conversation_id)]

\* the Message rows of chat_id as {role, content} dicts, in insertion order
StoredMessages(db, chat_id) ==
    LET found == FindByChatId(db.conversations, chat_id)
        rows == IF found = <<>> THEN <<>>
                ELSE MessagesOf(db.messages, found[1].id)
    IN  [i \in 1..Len(rows) |-> ToDict(rows[i])]

HasSystem(msgs) == \E i \in 1..Len(msgs) : msgs[i].role = "system"

(* --------------------------- inputs of the bot ------------------------- *)
MaxBotRows == 3

BotChats == {"42"}

\* update.effective_user.username
BotUsers == {"alice"}

BotTexts == {"hi"}

\* max_history_tokens given to TelegramBot.__init__: a budget that holds the
\* system message and one more message, or two messages without it
BotBudgets == {20}

\* self.enable_web_search, by default
enable_web_search == TRUE

BotChatResponses ==
    {r \in ChatResponses :
        \/ r.kind = "raise"
             /\ r.fault \in {Exc("Exception", "Connection reset"),
                             Exc("RateLimitError", "Rate limit exceeded")}
        \/ r.kind = "completion" /\ r.choices = 0
        \/ r.kind = "completion" /\ r.choices = 1 /\ r.content = " hello "
             /\ r.finish_reason = "stop"
             /\ r.tool_calls \in {"none", "search_web"}}

BotTranscriptions ==
    {r \in TranscriptionResponses :
        r.kind = "raise" => r.fault = Exc("Exception", "Connection reset")}

BotPrompts == {"", " a cat"}

BotImageResponses ==
    {r \in ImageResponses :
        /\ r.kind = "raise" => r.fault = Exc("Exception", "Connection reset")
        /\ r.kind = "images" => r.data = 1 /\ r.url # NoValue}

BotQueries == {"", " news"}

(* -------------------------- calls of the client ------------------------ *)
\* the exception objects given to the two error mappers: provider faults,
\* the application's own exceptions and exceptions raised inside the client
AppErrors ==
    {Exc(t, x) :
        t \in {"NoChoicesError", "AudioFileNotFoundError",
               "AudioFileTooLargeError", "APIAuthenticationError",
               "APIRateLimitError", "APIError", "ImageGenerationError",
               "JSONDecodeError", "AttributeError"},
        x \in {"None", "No choices returned from second OpenAI API call"}}

AnyErrors == ProviderFaults \cup AppErrors

\* session.get(image_url) of _imagine_command: the status of the response,
\* or an exception of the HTTP client
DownloadOutcomes ==
    {[raised |-> FALSE, status |-> 200], [raised |-> FALSE, status |-> 404],
     [raised |-> TRUE, status |-> 0]}

\* no download was attempted
NoDownload == [raised |-> FALSE, status |-> -1]

\* no handler has run yet; cleared_chats are the chat ids given to
\* clear_conversation, photo_sent tells that send_photo was called
NoEvent ==
    [handler |-> "none", chat |-> "", called |-> FALSE, failed |-> FALSE,
     submitted |-> <<>>, rows_at_call |-> <<>>, memory_at_call |-> <<>>,
     reply |-> "", error |-> NoError, fault_text |-> "",
     cleared_chats |-> <<>>, download |-> NoDownload, photo_sent |-> FALSE]

\* text of the fault a provider response raises, "" when it raises none
FaultText(response) ==
    IF response.kind = "raise" THEN str(response.fault) ELSE ""

\* the client has not been called
NoClientCall ==
    [op |-> "none", error |-> NoError, default_message |-> "",
     enable_web_search |-> FALSE, first |-> NoResponse, second |-> NoResponse,
     input |-> "", outcome |-> Returns(Result_ok(NoValue)), text |-> "",
     provider_calls |-> 0]

(* ------------- calls of core/result.py and of the TokenManager --------- *)
\* tiktoken.encoding_for_model(model_name): the encoding of a model name the
\* tokenizer has in its table, by the whole name or by a prefix of it;
\* KeyError for every other name
ModelToEncoding(model_name) ==
    CASE model_name = "gpt-4o" -> "o200k_base"
      [] model_name = "gpt-4" -> "cl100k_base"
      [] Len(model_name) > 7 /\ SubSeq(model_name, 1, 7) = "gpt-4o-" -> "o200k_base"
      [] Len(model_name) > 6 /\ SubSeq(model_name, 1, 6) = "gpt-4-" -> "cl100k_base"
      [] OTHER -> NoValue

encoding_for_model(model_name) ==
    IF ModelToEncoding(model_name) # NoValue
    THEN Returns(ModelToEncoding(model_name))
    ELSE Raises(Exc("KeyError",
                    "Could not automatically map " \o model_name
                        \o " to a tokeniser."))

\* variant of TokenManager.__init__ that catches the KeyError and takes
\* the encoding cl100k_base
init_WithDefault(model_name, max_tokens) ==
    LET encoding == encoding_for_model(model_name)
    IN  IF encoding.raised
        THEN Returns([encoding |-> "cl100k_base", max_tokens |-> max_tokens])
        ELSE Returns([encoding |-> encoding.value, max_tokens |-> max_tokens])

\* TokenManager.__init__(model_name, max_tokens): what the constructor call
\* gives, the object or the exception that leaves __init__
__init__(model_name, max_tokens) ==
    LET encoding == encoding_for_model(model_name)
    IN  IF encoding.raised
        THEN Raises(encoding.exc)
        ELSE Returns([encoding |-> encoding.value, max_tokens |-> max_tokens])

\* model names: the default of the application and of TokenManager, a dated
\* name of the same model, the second chat model of core/constants.py and
\* a name of no OpenAI model
ModelNames == {"gpt-4o", "gpt-4o-mini", "gpt-o3-mini", "my-local-model"}

ResultValues == {NoValue, "", "hello"}

ResultErrors == {NoError, Exc("ValueError", "Test error"), Exc("APIError", "")}

ErrorMessages == {NoValue, "", "Custom error message"}

Metadatas == {NoMetadata, Dict(<<>>), Dict([key1 |-> "value1", key2 |-> "123"])}

\* messages given to estimate_tokens, one of them without the key content
MaxEstimateLen == 3

EstimateMsgs ==
    {[role |-> "user", content |-> "hi"],
     [role |-> "user", content |-> ""],
     [role |-> "assistant",
      content |-> "what is the weather like in Paris today?"],
     [role |-> "user"]}

EstimateLists == UNION {[1..n -> EstimateMsgs] : n \in 0..MaxEstimateLen}

NoResult ==
    [success |-> FALSE, value |-> NoValue, error |-> NoError,
     error_message |-> NoValue, metadata |-> NoMetadata]

\* inputs of the repository calls made by a single session
MaxRepoRows == 2

RepoChats == {"42", "43"}

RepoUserIds == {NoUser, "", "alice", "bob"}

RepoContents == {"hi", "hello"}

Limits == {NoLimit} \cup {Limit(n) : n \in 0..MaxRepoRows}

\* the single session has made no repository call
NoRepoCall ==
    [op |-> "none", chat_id |-> "", user_id |-> NoUser, limit |-> NoLimit,
     before |-> Db(<<>>, <<>>), ret |-> <<>>, time |-> ImportTime]

\* the times at which the calls are made: the module was imported before
CallTimes == {ImportTime + 1, ImportTime + 2}

\* contents of the messages sent to the chat that is cleared while appends
\* are in flight: every message has a content of its own
ClearChats == {"42"}

ClearContents == {"m1", "m2", "m3"}

\* nothing of core/result.py or of the TokenManager has been called
NoCoreCall ==
    [op |-> "none", value |-> NoValue, error |-> NoError,
     error_message |-> NoValue, metadata |-> NoMetadata,
     model_name |-> "", messages |-> <<>>,
     result |-> NoResult, outcome |-> Returns(NoValue), tokens |-> 0]

(* ------------------------------ state ---------------------------------- *)
VARIABLES
    history,        \* the list object the caller passes to the TokenManager
    tm_max_tokens,  \* TokenManager.max_tokens
    trimmed,        \* the list returned by the last trim_messages_to_fit
    trimInput,      \* value of the argument when the last call was entered
    trimFlag,       \* preserve_system of the last call
    prevTrimmed,    \* the list returned by the call before the last
    prevFlag,       \* preserve_system of the call before the last
    ncalls,         \* number of trim_messages_to_fit calls made
    conversations,  \* table conversations, rows in insertion order
    messages,       \* table messages, rows in insertion order
    sess,           \* per database session: the repository call in progress
    last,           \* the repository call that just finished, with its result,
                    \* until the next call is made
    referenced,     \* chat_ids for which a repository call has finished
    self_conversations, \* TelegramBot.conversations: per chat the in-memory
                    \* list, <<>> for a chat without an entry
    user_data,      \* context.user_data[chat_id]["web_search_enabled"]
    event,          \* the handler that ran last: what it submitted and replied
    client_call,    \* the call of the OpenAI client made last, with its outcome
    core_call,      \* the call of core/result.py or of the TokenManager made
                    \* last, with its outcome
    repo_call,      \* the repository call a single session made last: its
                    \* arguments, the tables before it and what it returned
    cleared         \* contents of the messages deleted by the
                    \* clear_conversation calls that have completed

trimVars == <<history, tm_max_tokens, trimmed, trimInput, trimFlag,
              prevTrimmed, prevFlag, ncalls>>

storeVars == <<conversations, messages, sess, last, referenced>>

appVars == <<self_conversations, user_data, event, client_call>>

libVars == <<core_call, repo_call, cleared>>

vars == <<trimVars, storeVars, appVars, libVars>>

InitStoreVars ==
    /\ conversations = <<>>
    /\ messages = <<>>
    /\ sess = [s \in Sessions |-> IdleSession]
    /\ last = NoCall
    /\ referenced = {}

InitAppVars ==
    /\ self_conversations = [c \in BotChats |-> <<>>]
    /\ user_data = [c \in BotChats |-> "unset"]
    /\ event = NoEvent
    /\ client_call = [op |-> "none"]

\* no call has been made: the records of the calls carry their operation only
InitLibVars ==
    /\ core_call = [op |-> "none"]
    /\ repo_call = [op |-> "none"]
    /\ cleared = {}

InitTrimVars ==
    /\ history = <<>>
    /\ tm_max_tokens = 0
    /\ trimmed = <<>>
    /\ trimInput = <<>>
    /\ trimFlag = TRUE
    /\ prevTrimmed = <<>>
    /\ prevFlag = TRUE
    /\ ncalls = 0

InitTrim ==
    /\ history \in Histories
    /\ tm_max_tokens \in Budgets
    /\ trimmed = <<>>
    /\ trimInput = <<>>
    /\ trimFlag = TRUE
    /\ prevTrimmed = <<>>
    /\ prevFlag = TRUE
    /\ ncalls = 0
    /\ InitStoreVars
    /\ InitAppVars
    /\ InitLibVars

TrimCall(preserve_system) ==
    /\ ncalls < MaxCalls
    /\ trimmed' = trim_messages_to_fit(history, tm_max_tokens, preserve_system)
    /\ history' = ListAfterTrim(history, preserve_system)
    /\ trimInput' = history
    /\ trimFlag' = preserve_system
    /\ prevTrimmed' = trimmed
    /\ prevFlag' = trimFlag
    /\ ncalls' = ncalls + 1
    /\ UNCHANGED <<tm_max_tokens, storeVars, appVars, libVars>>

NextTrim == \E preserve_system \in BOOLEAN : TrimCall(preserve_system)

SpecTrim == InitTrim /\ [][NextTrim]_vars

\* trim_messages_to_fit called on the list the last call returned; the
\* caller's first list is not touched by this call
TrimAgain(preserve_system) ==
    /\ ncalls >= 1 /\ ncalls < MaxCalls
    /\ trimmed' = trim_messages_to_fit(trimmed, tm_max_tokens, preserve_system)
    /\ trimInput' = trimmed
    /\ trimFlag' = preserve_system
    /\ prevTrimmed' = trimmed
    /\ prevFlag' = trimFlag
    /\ ncalls' = ncalls + 1
    /\ UNCHANGED <<history, tm_max_tokens, storeVars, appVars, libVars>>

NextAgain ==
    \/ \E preserve_system \in BOOLEAN : TrimCall(preserve_system)
    \/ \E preserve_system \in BOOLEAN : TrimAgain(preserve_system)

SpecAgain == InitTrim /\ [][NextAgain]_vars


(* --------------------------- store actions ----------------------------- *)
\* a repository call of session s finishes: the session is free again and
\* the outcome is recorded
Finish(s, call, outcome, conv, ret, rowcount) ==
    /\ sess' = [sess EXCEPT ![s] = IdleSession]
    /\ last' = [op |-> call.op, chat |-> call.chat, user_id |-> call.user_id,
                outcome |-> outcome, conv |-> conv, ret |-> ret,
                first |-> call.first, rowcount |-> rowcount]
    /\ referenced' = referenced \cup {call.chat}

\* get_or_create_conversation returns row to its caller: the call itself
\* finishes, or the calling repository method goes on with its own statement
Return(s, call, row) ==
    IF call.op = "get_or_create_conversation"
    THEN Finish(s, call, "ok", <<row>>, <<>>, 0)
    ELSE /\ sess' = [sess EXCEPT ![s] = [call EXCEPT !.pc = "body", !.conv = <<row>>]]
         /\ last' = IF sess[s].pc = "idle" THEN NoCall ELSE last
         /\ UNCHANGED referenced

\* entry of a repository method: the SELECT of get_or_create_conversation
\* and the branch taken on its result
Begin(s, op, chat_id, user_id, role, content) ==
    /\ sess[s].pc = "idle"
    /\ LET found == FindByChatId(conversations, chat_id)
           again == /\ op = "get_or_create_conversation"
                    /\ last.op = op /\ last.outcome = "ok"
                    /\ last.chat = chat_id /\ last.user_id = user_id
           call == [IdleSession EXCEPT !.op = op, !.chat = chat_id,
                                       !.user_id = user_id, !.role = role,
                                       !.content = content,
                                       !.first = IF again THEN last.conv
                                                 ELSE IF op = "clear_conversation" THEN found
                                                 ELSE <<>>]
       IN  IF found = <<>>
           THEN /\ sess' = [sess EXCEPT ![s] = [call EXCEPT !.pc = "commit"]]
                /\ last' = NoCall
                /\ UNCHANGED referenced
           ELSE IF Truthy(user_id) /\ found[1].user_id # user_id
           THEN /\ sess' = [sess EXCEPT ![s] = [call EXCEPT !.pc = "commit", !.conv = found]]
                /\ last' = NoCall
                /\ UNCHANGED referenced
           ELSE Return(s, call, found[1])
    /\ UNCHANGED <<conversations, messages, trimVars, libVars, appVars>>

GetOrCreateConversation(s, chat_id, user_id) ==
    Begin(s, "get_or_create_conversation", chat_id, user_id, "", "")

InFlightAdds == Cardinality({t \in Sessions : sess[t].op = "add_message"})

AddMessage(s, chat_id, role, content) ==
    /\ MaxId(messages) + InFlightAdds < MaxMessageId
    /\ Begin(s, "add_message", chat_id, NoUser, role, content)

GetMessages(s, chat_id) ==
    Begin(s, "get_messages", chat_id, NoUser, "", "")

ClearConversation(s, chat_id) ==
    Begin(s, "clear_conversation", chat_id, NoUser, "", "")

\* session.add(conversation) or conversation.user_id = user_id, then
\* session.commit() and session.refresh(conversation); a rejected INSERT
\* raises IntegrityError out of the repository method
CommitConversation(s) ==
    /\ sess[s].pc = "commit"
    /\ LET call == sess[s]
       IN  IF call.conv = <<>>
           THEN IF UniqueViolation(conversations, call.chat)
                THEN /\ Finish(s, call, "IntegrityError", <<>>, <<>>, 0)
                     /\ UNCHANGED conversations
                ELSE LET row == NewConversation(conversations, call.chat,
                                                call.user_id, ImportTime)
                     IN  /\ conversations' = Append(conversations, row)
                         /\ Return(s, call, row)
           ELSE /\ conversations' = UpdateUserId(conversations, call.conv[1].id,
                                                 call.user_id, ImportTime)
                /\ Return(s, call, conversations'[RowById(conversations, call.conv[1].id)])
    /\ UNCHANGED <<messages, trimVars, libVars, appVars>>

\* add_message after get_or_create_conversation: INSERT and commit
InsertMessage(s) ==
    /\ sess[s].pc = "body" /\ sess[s].op = "add_message"
    /\ messages' = Append(messages,
                          NewMessage(messages, sess[s].conv[1].id, sess[s].role,
                                     sess[s].content, ImportTime))
    /\ Finish(s, sess[s], "ok", <<>>, <<>>, 0)
    /\ UNCHANGED <<conversations, trimVars, libVars, appVars>>

\* get_messages (limit=None) after get_or_create_conversation: the SELECT
SelectMessages(s) ==
    /\ sess[s].pc = "body" /\ sess[s].op = "get_messages"
    /\ \E result \in QueryResults(messages, sess[s].conv[1].id) :
          Finish(s, sess[s], "ok", <<>>, result, 0)
    /\ UNCHANGED <<conversations, messages, trimVars, libVars, appVars>>

\* clear_conversation after get_or_create_conversation: DELETE and commit
DeleteRows(s) ==
    /\ sess[s].pc = "body" /\ sess[s].op = "clear_conversation"
    /\ messages' = DeleteMessages(messages, sess[s].conv[1].id)
    /\ Finish(s, sess[s], "ok", FindByChatId(conversations, sess[s].chat), <<>>,
              Len(messages) - Len(messages'))
    /\ UNCHANGED <<conversations, trimVars, appVars, core_call, repo_call>>

DeleteAndCommit(s) == DeleteRows(s) /\ UNCHANGED cleared

Init == InitTrimVars /\ InitStoreVars /\ InitAppVars /\ InitLibVars

Next ==
    \/ \E s \in Sessions, c \in Chats, u \in UserIds : GetOrCreateConversation(s, c, u)
    \/ \E s \in Sessions, c \in Chats, r \in StoreRoles, t \in StoreContents : AddMessage(s, c, r, t)
    \/ \E s \in Sessions, c \in Chats : GetMessages(s, c)
    \/ \E s \in Sessions, c \in Chats : ClearConversation(s, c)
    \/ \E s \in Sessions : CommitConversation(s)
    \/ \E s \in Sessions : InsertMessage(s)
    \/ \E s \in Sessions : SelectMessages(s)
    \/ \E s \in Sessions : DeleteAndCommit(s)

Spec == Init /\ [][Next]_vars

(* ---------------- the repository used by a single session -------------- *)
RepoDb == Db(conversations, messages)

RepoBecomes(db) ==
    /\ conversations' = db.conversations
    /\ messages' = db.messages
    /\ UNCHANGED <<trimVars, appVars, sess, last, referenced, core_call, cleared>>

\* the clock does not go back between two calls
Later(now) == IF repo_call.op = "none" THEN TRUE ELSE now >= repo_call.time

RepoGetOrCreateConversation(chat_id, user_id) ==
    /\ RepoBecomes(get_or_create_conversation(RepoDb, chat_id, user_id))
    /\ \E now \in CallTimes :
          /\ Later(now)
          /\ repo_call' = [NoRepoCall EXCEPT
                              !.op = "get_or_create_conversation",
                              !.chat_id = chat_id, !.user_id = user_id,
                              !.before = RepoDb, !.time = now]

RepoAddMessage(chat_id, role, content) ==
    /\ MaxId(messages) < MaxRepoRows
    /\ RepoBecomes(add_message(RepoDb, chat_id, role, content))
    /\ \E now \in CallTimes :
          /\ Later(now)
          /\ repo_call' = [NoRepoCall EXCEPT
                              !.op = "add_message", !.chat_id = chat_id,
                              !.before = RepoDb, !.time = now]

RepoGetMessages(chat_id, limit) ==
    LET call == get_messages_limit(RepoDb, chat_id, limit)
    IN  /\ RepoBecomes(call.db)
        /\ \E ret \in call.returns, now \in CallTimes :
              /\ Later(now)
              /\ repo_call' = [NoRepoCall EXCEPT
                                  !.op = "get_messages", !.chat_id = chat_id,
                                  !.limit = limit, !.before = RepoDb,
                                  !.ret = ret, !.time = now]

RepoClearConversation(chat_id) ==
    /\ RepoBecomes(clear_conversation(RepoDb, chat_id))
    /\ \E now \in CallTimes :
          /\ Later(now)
          /\ repo_call' = [NoRepoCall EXCEPT
                              !.op = "clear_conversation", !.chat_id = chat_id,
                              !.before = RepoDb, !.time = now]

NextRepo ==
    \/ \E c \in RepoChats, u \in RepoUserIds : RepoGetOrCreateConversation(c, u)
    \/ \E c \in RepoChats, t \in RepoContents : RepoAddMessage(c, "user", t)
    \/ \E c \in RepoChats, limit \in Limits : RepoGetMessages(c, limit)
    \/ \E c \in RepoChats : RepoClearConversation(c)

SpecRepo == Init /\ [][NextRepo]_vars

(* ------------- clear_conversation while appends are in flight ---------- *)
\* the content is of no message sent before
Fresh(content) ==
    /\ content \notin cleared
    /\ \A i \in 1..Len(messages) : messages[i].content # content
    /\ \A s \in Sessions : sess[s].content # content

\* contents of the Message rows of one conversation
ContentsOf(msgs, conversation_id) ==
    {MessagesOf(msgs, conversation_id)[i].content :
        i \in 1..Len(MessagesOf(msgs, conversation_id))}

\* the DELETE and commit of clear_conversation, the messages the
\* conversation had before it being recorded
ClearCompletes(s) ==
    /\ DeleteRows(s)
    /\ cleared' = cleared \cup ContentsOf(messages, sess[s].conv[1].id)

NextClear ==
    \/ \E s \in Sessions, c \in ClearChats, t \in ClearContents :
          Fresh(t) /\ AddMessage(s, c, "user", t)
    \/ \E s \in Sessions, c \in ClearChats : GetMessages(s, c)
    \/ \E s \in Sessions, c \in ClearChats : ClearConversation(s, c)
    \/ \E s \in Sessions : CommitConversation(s)
    \/ \E s \in Sessions : InsertMessage(s)
    \/ \E s \in Sessions : SelectMessages(s)
    \/ \E s \in Sessions : ClearCompletes(s)

SpecClear == Init /\ [][NextClear]_vars

(* ------------------------------ the bot -------------------------------- *)
\* TelegramBot.__init__ with a fresh database; max_history_tokens is the
\* budget given to the TokenManager
InitBot ==
    /\ history = <<>>
    /\ tm_max_tokens \in BotBudgets
    /\ trimmed = <<>>
    /\ trimInput = <<>>
    /\ trimFlag = TRUE
    /\ prevTrimmed = <<>>
    /\ prevFlag = TRUE
    /\ ncalls = 0
    /\ InitStoreVars
    /\ InitAppVars
    /\ InitLibVars

\* context.user_data.get(chat_id, {}).get("web_search_enabled",
\*                                        self.enable_web_search)
WebSearchEnabled(chat_id) ==
    IF user_data[chat_id] = "unset" THEN enable_web_search
    ELSE user_data[chat_id] = "on"

\* the second response is drawn only when a second request is sent
SecondResponses(enable, first) ==
    IF SendsSecond(enable, first) THEN BotChatResponses ELSE {NoResponse}

\* the handler leaves the tables as db
StoreBecomes(db) ==
    /\ conversations' = db.conversations
    /\ messages' = db.messages

\* TelegramBot._start_command
StartCommand(chat_id, user_id) ==
    /\ MaxId(messages) + 1 <= MaxBotRows
    /\ LET db1 == get_or_create_conversation(Db(conversations, messages),
                                             chat_id, user_id)
       IN  \E no_system \in {msgs = <<>> \/ ~HasSystem(msgs) :
                                 msgs \in get_messages(db1, chat_id)} :
              StoreBecomes(IF no_system
                           THEN add_message(db1, chat_id, SystemPrompt.role,
                                            SystemPrompt.content)
                           ELSE db1)
    /\ user_data' = [user_data EXCEPT ![chat_id] =
                        IF @ = "unset"
                        THEN (IF enable_web_search THEN "on" ELSE "off") ELSE @]
    /\ event' = [NoEvent EXCEPT !.handler = "start", !.chat = chat_id]
    /\ UNCHANGED <<self_conversations, client_call, trimVars, libVars, sess, last,
                   referenced>>

\* variant of ClearMemory that gives every chat an in-memory conversation
ClearMemory_Always(entry) == <<SystemPrompt>>

\* if chat_id in self.conversations: the entry becomes the system prompt
\* alone (entry is <<>> for a chat without one)
ClearMemory(entry) == IF entry # <<>> THEN <<SystemPrompt>> ELSE entry

\* TelegramBot._clear_command
ClearCommand(chat_id) ==
    /\ StoreBecomes(clear_conversation(Db(conversations, messages), chat_id))
    /\ self_conversations' =
          [self_conversations EXCEPT ![chat_id] = ClearMemory(@)]
    /\ event' = [NoEvent EXCEPT !.handler = "clear", !.chat = chat_id,
                                !.cleared_chats = <<chat_id>>,
                                !.memory_at_call = self_conversations[chat_id]]
    /\ UNCHANGED <<user_data, client_call, trimVars, libVars, sess, last, referenced>>

\* TelegramBot._toggle_web_search_command
ToggleWebSearchCommand(chat_id) ==
    /\ user_data' = [user_data EXCEPT ![chat_id] =
                        IF WebSearchEnabled(chat_id) THEN "off" ELSE "on"]
    /\ event' = [NoEvent EXCEPT !.handler = "websearch", !.chat = chat_id]
    /\ UNCHANGED <<self_conversations, client_call, trimVars, libVars, storeVars>>

\* variant of TextAfterCompletion that records the failure in the history
TextAfter_RecordsFailure(db, entry, chat_id, user_msg, openai_result) ==
    LET reply == IF openai_result.success THEN openai_result.value
                 ELSE _get_user_friendly_error_message(openai_result.error,
                                                       DefaultMessage)
        start == IF entry = <<>> THEN <<SystemPrompt>> ELSE entry
    IN  [db |-> add_message(db, chat_id, "assistant", reply),
         entry |-> start \o <<[role |-> "user", content |-> user_msg],
                             [role |-> "assistant", content |-> reply]>>,
         reply |-> reply]

\* _text_handler from the result of create_chat_completion on: the tables,
\* the in-memory entry of the chat (<<>> when it has none) and the reply
TextAfterCompletion(db, entry, chat_id, user_msg, openai_result) ==
    IF ~openai_result.success
    THEN [db |-> db, entry |-> entry,
          reply |-> _get_user_friendly_error_message(openai_result.error,
                                                     DefaultMessage)]
    ELSE LET start == IF entry = <<>> THEN <<SystemPrompt>> ELSE entry
         IN  [db |-> add_message(db, chat_id, "assistant", openai_result.value),
              entry |-> start \o
                  <<[role |-> "user", content |-> user_msg],
                    [role |-> "assistant", content |-> openai_result.value]>>,
              reply |-> openai_result.value]

\* TelegramBot._text_handler
TextHandler(chat_id, user_name, user_msg, first) ==
    /\ MaxId(messages) + 2 <= MaxBotRows
    /\ \E second \in SecondResponses(WebSearchEnabled(chat_id), first) :
       LET db1 == get_or_create_conversation(Db(conversations, messages),
                                             chat_id, user_name)
           db2 == add_message(db1, chat_id, "user", user_msg)
       IN  \E trimmed_messages \in
                 {trim_messages_to_fit(msgs, tm_max_tokens, TRUE) :
                     msgs \in get_messages(db2, chat_id)} :
              LET openai_result ==
                      create_chat_completion(trimmed_messages,
                                             WebSearchEnabled(chat_id),
                                             first, second).value
                  after == TextAfterCompletion(db2, self_conversations[chat_id],
                                               chat_id, user_msg, openai_result)
              IN  /\ StoreBecomes(after.db)
                  /\ self_conversations' =
                        [self_conversations EXCEPT ![chat_id] = after.entry]
                  /\ event' = [handler |-> "text", chat |-> chat_id,
                               called |-> TRUE,
                               failed |-> ~openai_result.success,
                               submitted |-> trimmed_messages,
                               rows_at_call |-> StoredMessages(db2, chat_id),
                               memory_at_call |-> self_conversations[chat_id],
                               reply |-> after.reply,
                               error |-> openai_result.error,
                               fault_text |-> IF FaultText(first) # ""
                                              THEN FaultText(first)
                                              ELSE FaultText(second),
                               cleared_chats |-> <<>>,
                               download |-> NoDownload,
                               photo_sent |-> FALSE]
    /\ UNCHANGED <<user_data, client_call, trimVars, libVars, sess, last, referenced>>

\* TelegramBot._image_handler and _process_image: what it replies
ImageHandler(chat_id, first) ==
    /\ LET openai_result ==
              create_chat_completion(<<>>, FALSE, first, NoResponse).value
       IN  event' = [NoEvent EXCEPT
                        !.handler = "image", !.chat = chat_id,
                        !.failed = ~openai_result.success,
                        !.reply = IF openai_result.success
                                  THEN openai_result.value
                                  ELSE _get_user_friendly_error_message(
                                           openai_result.error, DefaultMessage),
                        !.fault_text = FaultText(first)]
    /\ UNCHANGED <<self_conversations, user_data, client_call, trimVars, libVars,
                   storeVars>>

\* TelegramBot._voice_handler, from the call of transcribe_audio on
VoiceHandler(chat_id, audio_file, transcription) ==
    /\ Len(self_conversations[chat_id]) + 2 <= MaxBotRows + 1
    /\ LET transcription_result ==
              transcribe_audio(audio_file, transcription).value
           start == IF self_conversations[chat_id] = <<>>
                    THEN <<SystemPrompt>> ELSE self_conversations[chat_id]
           heard == Append(start, [role |-> "user",
                                   content |-> transcription_result.value])
       IN  IF ~transcription_result.success
           THEN /\ event' = [NoEvent EXCEPT
                      !.handler = "voice", !.chat = chat_id, !.failed = TRUE,
                      !.reply = _get_user_friendly_error_message(
                          transcription_result.error,
                          "I couldn't transcribe your voice message. Please try again."),
                      !.fault_text = IF audio_file = "ok"
                                     THEN FaultText(transcription) ELSE ""]
                /\ UNCHANGED self_conversations
           ELSE \E first \in BotChatResponses :
                \E second \in SecondResponses(WebSearchEnabled(chat_id), first) :
                LET completion_result ==
                        create_chat_completion(heard, WebSearchEnabled(chat_id),
                                               first, second).value
                IN  /\ self_conversations' =
                          [self_conversations EXCEPT ![chat_id] =
                              IF completion_result.success
                              THEN Append(heard,
                                          [role |-> "assistant",
                                           content |-> completion_result.value])
                              ELSE heard]
                    /\ event' = [NoEvent EXCEPT
                          !.handler = "voice", !.chat = chat_id,
                          !.failed = ~completion_result.success,
                          !.reply = IF completion_result.success
                                    THEN completion_result.value
                                    ELSE _get_user_friendly_error_message(
                                             completion_result.error,
                                             "I couldn't process your voice message. Please try again."),
                          !.fault_text = IF FaultText(first) # ""
                                         THEN FaultText(first)
                                         ELSE FaultText(second)]
    /\ UNCHANGED <<user_data, client_call, trimVars, libVars, storeVars>>

\* variant of Downloaded that takes every response for the image
Downloaded_AnyStatus(outcome) == ~outcome.raised

\* the request for the image returned and response.status is 200
Downloaded(outcome) == ~outcome.raised /\ outcome.status = 200

\* TelegramBot._imagine_command; the download is attempted only for a
\* generated image
ImagineCommand(chat_id, prompt, response, download) ==
    /\ MaxId(messages) + 2 <= MaxBotRows
    /\ LET text == strip(prompt)
           image_result == generate_image(text, response).value
       IN  IF text = ""
           THEN /\ event' = [NoEvent EXCEPT
                      !.handler = "imagine", !.chat = chat_id,
                      !.reply = "Please provide some description for the image if you would like me to generate one.\nExample: /imagine a cat playing the piano"]
                /\ UNCHANGED <<conversations, messages>>
           ELSE IF ~image_result.success
           THEN /\ event' = [NoEvent EXCEPT
                      !.handler = "imagine", !.chat = chat_id, !.failed = TRUE,
                      !.called = TRUE,
                      !.reply = _get_user_friendly_error_message(
                          image_result.error,
                          "I couldn't generate that image. Please try again with a different description."),
                      !.fault_text = FaultText(response)]
                /\ UNCHANGED <<conversations, messages>>
           ELSE IF ~Downloaded(download)
           THEN /\ event' = [NoEvent EXCEPT
                      !.handler = "imagine", !.chat = chat_id, !.called = TRUE,
                      !.download = download,
                      !.reply = IF download.raised
                                THEN "Sorry, I encountered an error while generating your image. Please try again later."
                                ELSE "I generated an image, but had trouble downloading it. Please try again."]
                /\ UNCHANGED <<conversations, messages>>
           ELSE /\ event' = [NoEvent EXCEPT
                      !.handler = "imagine", !.chat = chat_id, !.called = TRUE,
                      !.download = download, !.photo_sent = TRUE,
                      !.reply = "Here's what I imagined for: \"" \o text \o "\""]
                /\ StoreBecomes(
                      add_message(
                          add_message(Db(conversations, messages), chat_id,
                                      "user", "/imagine " \o text),
                          chat_id, "assistant",
                          "[Generated image for: \"" \o text \o "\"]"))
    /\ UNCHANGED <<self_conversations, user_data, client_call, trimVars, libVars, sess,
                   last, referenced>>

\* TelegramBot._explicit_search_command of a bot whose client has a
\* tavily_manager
SearchCommand(chat_id, text, response) ==
    /\ MaxId(messages) + 2 <= MaxBotRows
    /\ LET query == strip(text)
           search_result == search_web(query, response)
       IN  IF query = ""
           THEN /\ event' = [NoEvent EXCEPT
                      !.handler = "search", !.chat = chat_id,
                      !.reply = "Please provide a search query. Example: /search latest AI research papers"]
                /\ UNCHANGED <<conversations, messages>>
           ELSE IF "error" \in search_result.keys
           THEN /\ event' = [NoEvent EXCEPT
                      !.handler = "search", !.chat = chat_id, !.failed = TRUE,
                      !.reply = "Search error: " \o search_result.error,
                      !.fault_text = FaultText(response)]
                /\ UNCHANGED <<conversations, messages>>
           ELSE \E first \in BotChatResponses :
                LET openai_result ==
                        create_chat_completion(<<>>, FALSE, first,
                                               NoResponse).value
                    answer == "Search results for: " \o query \o "\n\n"
                                  \o openai_result.value
                IN  IF ~openai_result.success
                    THEN /\ event' = [NoEvent EXCEPT
                               !.handler = "search", !.chat = chat_id,
                               !.failed = TRUE,
                               !.reply = _get_user_friendly_error_message(
                                             openai_result.error, DefaultMessage),
                               !.fault_text = FaultText(first)]
                         /\ UNCHANGED <<conversations, messages>>
                    ELSE /\ event' = [NoEvent EXCEPT
                               !.handler = "search", !.chat = chat_id,
                               !.reply = answer]
                         /\ StoreBecomes(
                               add_message(
                                   add_message(Db(conversations, messages),
                                               chat_id, "user",
                                               "/search " \o query),
                                   chat_id, "assistant", answer))
    /\ UNCHANGED <<self_conversations, user_data, client_call, trimVars, libVars, sess,
                   last, referenced>>

NextBot ==
    \/ \E c \in BotChats, u \in BotUsers : StartCommand(c, u)
    \/ \E c \in BotChats : ClearCommand(c)
    \/ \E c \in BotChats : ToggleWebSearchCommand(c)
    \/ \E c \in BotChats, u \in BotUsers, t \in BotTexts,
          first \in BotChatResponses : TextHandler(c, u, t, first)
    \/ \E c \in BotChats, first \in BotChatResponses : ImageHandler(c, first)
    \/ \E c \in BotChats, f \in AudioFiles, t \in BotTranscriptions :
          VoiceHandler(c, f, t)
    \/ \E c \in BotChats, p \in BotPrompts, r \in BotImageResponses,
          d \in DownloadOutcomes : ImagineCommand(c, p, r, d)
    \/ \E c \in BotChats, q \in BotQueries, r \in SearchResponses :
          SearchCommand(c, q, r)

SpecBot == InitBot /\ [][NextBot]_vars

(* --------------------- the text path on a small budget ----------------- *)
\* max_history_tokens of a bot whose budget holds the system message and
\* nothing more, or the system message and one more message
TextBudgets == {12, 20}

InitText ==
    /\ history = <<>>
    /\ tm_max_tokens \in TextBudgets
    /\ trimmed = <<>>
    /\ trimInput = <<>>
    /\ trimFlag = TRUE
    /\ prevTrimmed = <<>>
    /\ prevFlag = TRUE
    /\ ncalls = 0
    /\ InitStoreVars
    /\ InitAppVars
    /\ InitLibVars

NextText ==
    \/ \E c \in BotChats, u \in BotUsers : StartCommand(c, u)
    \/ \E c \in BotChats : ClearCommand(c)
    \/ \E c \in BotChats, u \in BotUsers, t \in BotTexts,
          first \in BotChatResponses : TextHandler(c, u, t, first)

SpecText == InitText /\ [][NextText]_vars

(* ------------------------- the client on its own ----------------------- *)
\* a direct call of the static method _handle_api_error
HandleApiError(error) ==
    /\ client_call' = [NoClientCall EXCEPT
                          !.op = "_handle_api_error", !.error = error,
                          !.outcome = Returns(_handle_api_error(error))]
    /\ UNCHANGED <<self_conversations, user_data, event, trimVars, libVars, storeVars>>

\* a direct call of the static method _get_user_friendly_error_message
GetUserFriendlyErrorMessage(error, default_message) ==
    /\ client_call' = [NoClientCall EXCEPT
                          !.op = "_get_user_friendly_error_message",
                          !.error = error,
                          !.default_message = default_message,
                          !.text = _get_user_friendly_error_message(
                                       error, default_message)]
    /\ UNCHANGED <<self_conversations, user_data, event, trimVars, libVars, storeVars>>

CreateChatCompletion(enable, first, second) ==
    /\ second \in IF SendsSecond(enable, first) THEN ChatResponses
                  ELSE {NoResponse}
    /\ client_call' = [NoClientCall EXCEPT
                          !.op = "create_chat_completion",
                          !.enable_web_search = enable,
                          !.first = first, !.second = second,
                          !.outcome = create_chat_completion(<<>>, enable,
                                                             first, second)]
    /\ UNCHANGED <<self_conversations, user_data, event, trimVars, libVars, storeVars>>

TranscribeAudio(audio_file_path, response) ==
    /\ client_call' = [NoClientCall EXCEPT
                          !.op = "transcribe_audio",
                          !.input = audio_file_path, !.first = response,
                          !.provider_calls = transcription_calls(audio_file_path),
                          !.outcome = transcribe_audio(audio_file_path, response)]
    /\ UNCHANGED <<self_conversations, user_data, event, trimVars, libVars, storeVars>>

GenerateImage(prompt, response) ==
    /\ client_call' = [NoClientCall EXCEPT
                          !.op = "generate_image",
                          !.input = prompt, !.first = response,
                          !.outcome = generate_image(prompt, response)]
    /\ UNCHANGED <<self_conversations, user_data, event, trimVars, libVars, storeVars>>

DefaultMessages ==
    {DefaultMessage,
     "I couldn't transcribe your voice message. Please try again.",
     "I couldn't process your voice message. Please try again.",
     "I couldn't generate that image. Please try again with a different description."}

NextClient ==
    \/ \E e \in AnyErrors : HandleApiError(e)
    \/ \E e \in AnyErrors \cup {NoError}, d \in DefaultMessages :
          GetUserFriendlyErrorMessage(e, d)
    \/ \E enable \in BOOLEAN, first \in ChatResponses,
          second \in ChatResponses \cup {NoResponse} :
          CreateChatCompletion(enable, first, second)
    \/ \E f \in ClientAudioFiles, r \in TranscriptionResponses :
          TranscribeAudio(f, r)
    \/ \E p \in Prompts, r \in ImageResponses : GenerateImage(p, r)

SpecClient == Init /\ [][NextClient]_vars

(* ------------------ core/result.py and the estimator -------------------- *)
ResultOk(value, metadata) ==
    /\ core_call' = [NoCoreCall EXCEPT
                        !.op = "Result.ok", !.value = value,
                        !.metadata = metadata, !.result = ok(value, metadata)]
    /\ UNCHANGED <<trimVars, storeVars, appVars, repo_call, cleared>>

ResultFail(error, error_message, metadata) ==
    /\ core_call' = [NoCoreCall EXCEPT
                        !.op = "Result.fail", !.error = error,
                        !.error_message = error_message,
                        !.metadata = metadata,
                        !.result = fail(error, error_message, metadata)]
    /\ UNCHANGED <<trimVars, storeVars, appVars, repo_call, cleared>>

NewTokenManager(model_name, max_tokens) ==
    /\ core_call' = [NoCoreCall EXCEPT
                        !.op = "TokenManager", !.model_name = model_name,
                        !.outcome = __init__(model_name, max_tokens)]
    /\ UNCHANGED <<trimVars, storeVars, appVars, repo_call, cleared>>

EstimateTokens(msgs) ==
    /\ core_call' = [NoCoreCall EXCEPT
                        !.op = "estimate_tokens", !.messages = msgs,
                        !.tokens = estimate_tokens(msgs)]
    /\ UNCHANGED <<trimVars, storeVars, appVars, repo_call, cleared>>

NextCore ==
    \/ \E value \in ResultValues, metadata \in Metadatas :
          ResultOk(value, metadata)
    \/ \E error \in ResultErrors, error_message \in ErrorMessages,
          metadata \in Metadatas : ResultFail(error, error_message, metadata)
    \/ \E model_name \in ModelNames : NewTokenManager(model_name, 4000)
    \/ \E msgs \in EstimateLists : EstimateTokens(msgs)

SpecCore == Init /\ [][NextCore]_vars

(* ------------------------ trimmer properties --------------------------- *)
TrimDone == ncalls > 0

RECURSIVE IsSubseq(_, _)
IsSubseq(a, b) ==
    IF a = <<>> THEN TRUE
    ELSE IF b = <<>> THEN FALSE
    ELSE IF Head(a) = Head(b) THEN IsSubseq(Tail(a), Tail(b))
    ELSE IsSubseq(a, Tail(b))

IsSuffix(a, b) ==
    /\ Len(a) <= Len(b)
    /\ a = SubSeq(b, Len(b) - Len(a) + 1, Len(b))

NumKept(out) == Len(NonSystemMessages(out))

\* C2: with preserve_system=True the result starts with every system
\* message of the input, in the input's order, and nothing after them is a
\* system message, whatever the budget
C2_SystemPinned ==
    (TrimDone /\ trimFlag) =>
        /\ Len(trimmed) >= Len(SystemMessages(trimInput))
        /\ SubSeq(trimmed, 1, Len(SystemMessages(trimInput))) = SystemMessages(trimInput)
        /\ SystemMessages(trimmed) = SystemMessages(trimInput)

C2_Witness ==
    /\ TrimDone /\ trimFlag
    /\ estimate_tokens(SystemMessages(trimInput)) > tm_max_tokens
    /\ Len(SystemMessages(trimInput)) >= 2
    /\ NonSystemMessages(trimInput) # <<>>
    /\ trimInput[1].role # "system"
    /\ trimmed = SystemMessages(trimInput)

\* C3: (default preserve_system) the estimate of the result is within the
\* budget whenever the system messages alone are, and when they are not the
\* result holds no non-system message
C3_RespectsBudget ==
    (TrimDone /\ trimFlag) =>
        /\ (estimate_tokens(SystemMessages(trimInput)) <= tm_max_tokens
              => estimate_tokens(trimmed) <= tm_max_tokens)
        /\ (estimate_tokens(SystemMessages(trimInput)) > tm_max_tokens
              => NonSystemMessages(trimmed) = <<>>)

C3_Witness ==
    /\ TrimDone /\ trimFlag
    /\ SystemMessages(trimInput) # <<>>
    /\ estimate_tokens(SystemMessages(trimInput)) <= tm_max_tokens
    /\ NumKept(trimmed) >= 1
    /\ NumKept(trimmed) < NumKept(trimInput)

\* C4: the non-system messages of the result are a contiguous suffix of the
\* non-system messages of the input
C4_KeptIsSuffix ==
    TrimDone => IsSuffix(NonSystemMessages(trimmed), NonSystemMessages(trimInput))

\* an older candidate that would still fit is left out because a more recent
\* one was rejected
C4_Witness ==
    /\ TrimDone /\ trimFlag
    /\ LET cand == NonSystemMessages(trimInput)
           kept == NonSystemMessages(trimmed)
           used == estimate_tokens(SystemMessages(trimInput))
                     + (estimate_tokens(kept) - 2) + 2 * Len(kept)
       IN  /\ Len(cand) >= Len(kept) + 3
           /\ used + estimate_tokens(<<cand[Len(cand) - Len(kept)]>>) > tm_max_tokens
           /\ used + estimate_tokens(<<cand[1]>>) <= tm_max_tokens
           /\ LET others == SubSeq(cand, 1, Len(cand) - Len(kept) - 1)
              IN  used + estimate_tokens(others) - 2 + 2 * Len(others) <= tm_max_tokens

\* C5: two successive calls on the same list with the same max_tokens and
\* the same preserve_system return equal lists
C5_TrimDeterminism ==
    (ncalls >= 2 /\ trimFlag = prevFlag) => trimmed = prevTrimmed

\* C6: for budgets B1 <= B2 on one history, at least as many non-system
\* messages are kept under B2 as under B1
C6_Monotone ==
    TrimDone =>
        \A b2 \in Budgets :
            tm_max_tokens <= b2 =>
                NumKept(trimmed)
                  <= NumKept(trim_messages_to_fit(trimInput, b2, trimFlag))

C6_Witness ==
    /\ TrimDone
    /\ NumKept(trimmed) = 1
    /\ \E b2 \in Budgets :
          /\ tm_max_tokens < b2
          /\ NumKept(trim_messages_to_fit(trimInput, b2, trimFlag)) = 3

\* C7 as claimed: the result is a sub-sequence of the input, for every input
C7_Original ==
    TrimDone => IsSubseq(trimmed, trimInput)

\* C7 amended: the system messages of the result and the non-system
\* messages of the result each keep the input's relative order, the result
\* is the former followed by the latter, and the whole result is a
\* sub-sequence of the input when preserve_system is off or no system
\* message of the input comes after a non-system message
NoSystemAfterNonSystem(msgs) ==
    \A i, j \in 1..Len(msgs) :
        (i < j /\ msgs[i].role # "system") => msgs[j].role # "system"

C7_OrderWithinGroups ==
    TrimDone =>
        /\ IsSubseq(SystemMessages(trimmed), trimInput)
        /\ IsSubseq(NonSystemMessages(trimmed), trimInput)
        /\ (trimFlag => trimmed = SystemMessages(trimmed) \o NonSystemMessages(trimmed))
        /\ ((~trimFlag \/ NoSystemAfterNonSystem(trimInput))
              => IsSubseq(trimmed, trimInput))

C7_Witness ==
    /\ TrimDone /\ trimFlag
    /\ ~NoSystemAfterNonSystem(trimInput)
    /\ NumKept(trimmed) >= 2
    /\ trimmed[Len(trimmed)] # trimmed[Len(trimmed) - 1]
    /\ ~IsSubseq(trimmed, trimInput)


(* -------------------------- store properties --------------------------- *)
RowsOfChat(chat_id) ==
    {i \in 1..Len(conversations) : conversations[i].chat_id = chat_id}

\* the messages of a chat in the order the add_message calls committed
InCallOrder(chat_id) ==
    LET conv == FindByChatId(conversations, chat_id)
        rows == IF conv = <<>> THEN <<>> ELSE MessagesOf(messages, conv[1].id)
    IN  [i \in 1..Len(rows) |-> ToDict(rows[i])]

\* C1: get_messages returns the messages added to the chat since the last
\* clear, as {role, content} pairs, in the order the add_message calls were
\* made
C1_CallOrder ==
    (last.op = "get_messages" /\ last.outcome = "ok")
        => last.ret = InCallOrder(last.chat)

\* C8: a get_or_create_conversation that repeats the call that just
\* returned (same chat_id, same user_id) returns too, returns the same
\* Conversation, and leaves exactly one row for the chat_id
C8_IdempotentGetOrCreate ==
    (last.op = "get_or_create_conversation" /\ last.first # <<>>) =>
        /\ last.outcome = "ok"
        /\ last.conv = last.first
        /\ Cardinality(RowsOfChat(last.chat)) = 1

C8_Witness ==
    /\ last.op = "get_or_create_conversation" /\ last.first # <<>>
    /\ last.outcome = "ok"
    /\ last.user_id = "alice"
    /\ last.conv[1].id = 2
    /\ \E s \in Sessions : sess[s].pc # "idle"

C10_OneConversationPerChat ==
    \A c \in Chats :
        /\ Cardinality(RowsOfChat(c)) <= 1
        /\ (c \in referenced => Cardinality(RowsOfChat(c)) = 1)

\* two sessions raced to create the same chat_id and the loser was rejected
C10_Witness ==
    /\ last.outcome = "IntegrityError"
    /\ referenced = Chats
    /\ Len(conversations) = 2
    /\ messages # <<>>


(* ------------------------- properties of the bot ----------------------- *)
TablesNow == Db(conversations, messages)

TextFailed == event.handler = "text" /\ event.called /\ event.failed

\* C11: when create_chat_completion fails in _text_handler, the reply is the
\* message mapped from the error, the stored messages of the chat are those
\* stored when the provider was called, and the in-memory conversation of
\* the chat is the one it had then
C11_FailureKeepsHistory ==
    TextFailed =>
        /\ event.reply = _get_user_friendly_error_message(event.error,
                                                          DefaultMessage)
        /\ StoredMessages(TablesNow, event.chat) = event.rows_at_call
        /\ self_conversations[event.chat] = event.memory_at_call

\* a text message fails at the provider in a chat that has stored messages
\* and an in-memory conversation
C11_Witness ==
    /\ TextFailed
    /\ Len(event.rows_at_call) >= 2
    /\ Len(event.memory_at_call) >= 3
    /\ event.reply = "I'm receiving too many requests right now. Please try again in a few minutes."

\* C12: every message list that _text_handler submits to the completion
\* provider contains at least one system-role message
C12_SystemMessageSubmitted ==
    (event.handler = "text" /\ event.called) => HasSystem(event.submitted)

\* the user and assistant messages of a list, in its order
UserAndAssistant(msgs) ==
    LET Kept(m) == m.role \in {"user", "assistant"}
    IN  SelectSeq(msgs, Kept)

\* C13: for every chat with an in-memory conversation, its user and
\* assistant messages are the user and assistant messages stored for the
\* chat, in the same order
C13_MemoryMirrorsStore ==
    \A c \in BotChats :
        self_conversations[c] # <<>> =>
            UserAndAssistant(self_conversations[c])
                = UserAndAssistant(StoredMessages(TablesNow, c))

ErrorClasses == {"APIAuthenticationError", "APIRateLimitError", "APIError"}

\* the sentences _get_user_friendly_error_message holds for the error kinds
KindSentences ==
    {"I'm having trouble connecting to my services. Please contact support.",
     "I'm receiving too many requests right now. Please try again in a few minutes.",
     "I couldn't find the audio file. Please try sending your message again.",
     "Your voice message is too large. Please send a shorter message (under 25MB).",
     "I couldn't generate the image. Please try a different description."}

\* every sentence the bot holds for a failed operation
StaticSentences == KindSentences \cup DefaultMessages

\* C18: what the bot replies after a provider operation failed is one of
\* the static sentences and contains nothing of the text of the provider's
\* fault
C18_StaticReplies ==
    (event.failed /\ event.handler \in {"text", "voice", "image", "imagine",
                                         "search"})
    => /\ event.reply \in StaticSentences
       /\ event.fault_text # "" => ~In(event.fault_text, event.reply)

(* ------------------------ properties of the client --------------------- *)
\* C14: for every exception object _handle_api_error returns, without
\* raising, one failed Result carrying one of APIAuthenticationError,
\* APIRateLimitError and APIError; for every exception object or None
\* _get_user_friendly_error_message returns one user-facing string
C14_MappersTotal ==
    /\ client_call.op = "_handle_api_error" =>
          /\ ~client_call.outcome.raised
          /\ ~client_call.outcome.value.success
          /\ client_call.outcome.value.error.type \in ErrorClasses
    /\ client_call.op = "_get_user_friendly_error_message" =>
          client_call.text \in KindSentences \cup {client_call.default_message}

\* an exception of a class and with a text the mapper knows nothing of
C14_Witness ==
    /\ client_call.op = "_handle_api_error"
    /\ client_call.error = Exc("AttributeError", "None")
    /\ client_call.outcome.value.error.type = "APIError"

\* the fault the provider raised in the call made last, NoError if none
RaisedFault ==
    IF client_call.first.kind = "raise" THEN client_call.first.fault
    ELSE IF client_call.second.kind = "raise" THEN client_call.second.fault
    ELSE NoError

ProviderRaised ==
    /\ client_call.op \in {"create_chat_completion", "transcribe_audio",
                           "generate_image"}
    /\ client_call.op = "transcribe_audio" => client_call.input = "ok"
    /\ client_call.op = "generate_image" => strip(client_call.input) # ""
    /\ RaisedFault # NoError

Unstructured == RaisedFault.type \notin {"AuthenticationError", "RateLimitError"}

TextHas(marker) == In(marker, lower(str(RaisedFault)))

ResultError == client_call.outcome.value.error

\* C15 as stated: a fault raised during chat completion with no structured
\* type and a text containing "rate limit" or "quota", in any case of the
\* letters, gives a failed Result carrying an APIRateLimitError
C15_Original ==
    (/\ client_call.op = "create_chat_completion"
     /\ ProviderRaised /\ Unstructured
     /\ TextHas("rate limit") \/ TextHas("quota"))
    => (~client_call.outcome.value.success
        /\ ResultError.type = "APIRateLimitError")

\* C15: a fault raised during chat completion with no structured type and a
\* text containing "rate limit" or "quota" but not "auth", in any case of
\* the letters, gives a failed Result carrying an APIRateLimitError
C15_RateLimitByText ==
    (/\ client_call.op = "create_chat_completion"
     /\ ProviderRaised /\ Unstructured
     /\ TextHas("rate limit") \/ TextHas("quota")
     /\ ~TextHas("auth"))
    => (~client_call.outcome.value.success
        /\ ResultError.type = "APIRateLimitError")

\* the follow-up request raises an untyped fault that speaks of a quota
C15_Witness ==
    /\ client_call.op = "create_chat_completion"
    /\ client_call.second.kind = "raise"
    /\ RaisedFault = Exc("Exception", "You exceeded your current quota")
    /\ ResultError.type = "APIRateLimitError"

\* C16: a fault of the provider's RateLimitError class is classified as
\* rate-limited and one of its AuthenticationError class as authentication,
\* whatever their text contains
C16_TypeBeforeText ==
    LET fault == IF client_call.op = "_handle_api_error" THEN client_call.error
                 ELSE RaisedFault
    IN  (client_call.op \in {"_handle_api_error", "create_chat_completion"}
         /\ fault # NoError)
        => /\ fault.type = "RateLimitError"
                 => ResultError.type = "APIRateLimitError"
           /\ fault.type = "AuthenticationError"
                 => ResultError.type = "APIAuthenticationError"

GenericUnexpected ==
    /\ ~client_call.outcome.raised
    /\ ~client_call.outcome.value.success
    /\ ResultError.type = "APIError"
    /\ In("Unexpected error", client_call.outcome.value.error_message)

NoChoices ==
    /\ client_call.op = "create_chat_completion"
    /\ \/ client_call.first.kind = "completion" /\ client_call.first.choices = 0
       \/ client_call.second.kind = "completion" /\ client_call.second.choices = 0

ProviderFault ==
    \/ ProviderRaised
    \/ NoChoices
    \/ /\ client_call.op = "generate_image" /\ strip(client_call.input) # ""
       /\ client_call.first.kind = "images" /\ client_call.first.data = 0

\* C19: create_chat_completion, transcribe_audio and generate_image return a
\* Result and never raise, whatever the provider does, and the Result is a
\* failed one on every fault of the provider
C19_NeverRaises ==
    client_call.op \in {"create_chat_completion", "transcribe_audio",
                        "generate_image"}
    => /\ ~client_call.outcome.raised
       /\ ProviderFault => ~client_call.outcome.value.success

\* the second request, made after a tool call, raises
C19_Witness ==
    /\ client_call.op = "create_chat_completion"
    /\ client_call.second.kind = "raise"
    /\ ~client_call.outcome.raised
    /\ ~client_call.outcome.value.success

\* C20: when the provider returns no choices, to the first request or to the
\* second one, create_chat_completion returns a failed Result whose error is
\* a NoChoicesError and whose message contains "No choices returned"
C20_NoChoicesError ==
    NoChoices =>
        /\ ~client_call.outcome.raised
        /\ ~client_call.outcome.value.success
        /\ ResultError.type = "NoChoicesError"
        /\ In("No choices returned", client_call.outcome.value.error_message)

(* ---------------- properties of Result and of the estimator ------------ *)
ResultCall == core_call.op \in {"Result.ok", "Result.fail"}

\* C21: every Result made by Result.ok or Result.fail has exactly one of
\* value and error populated: an ok result has a value and no error, a fail
\* result has an error and no value
C21_ExactlyOnePopulated ==
    ResultCall =>
        IF core_call.result.success
        THEN core_call.result.value # NoValue /\ core_call.result.error = NoError
        ELSE core_call.result.error # NoError /\ core_call.result.value = NoValue

\* C22: every Result made by Result.ok or Result.fail has a metadata map,
\* the empty one when the caller gave none, and the map the caller gave
\* otherwise
C22_MetadataPresent ==
    ResultCall =>
        /\ core_call.result.metadata # NoMetadata
        /\ core_call.result.metadata =
              IF core_call.metadata = NoMetadata THEN Dict(<<>>)
              ELSE core_call.metadata

OkShape ==
    core_call.op = "Result.ok" =>
        /\ core_call.result.success
        /\ core_call.result.error = NoError
        /\ core_call.result.error_message = NoValue

FailShape ==
    core_call.op = "Result.fail" =>
        /\ ~core_call.result.success
        /\ core_call.result.value = NoValue

\* C23 as stated: Result.fail gives success=False and value=None, and its
\* error_message is the error_message argument when one is given, else
\* str(error) when an error is given, else "Unknown error"; Result.ok gives
\* success=True with error and error_message None
C23_Original ==
    /\ OkShape
    /\ FailShape
    /\ core_call.op = "Result.fail" =>
          core_call.result.error_message =
              IF core_call.error_message # NoValue THEN core_call.error_message
              ELSE IF core_call.error # NoError THEN str(core_call.error)
              ELSE "Unknown error"

\* C23: Result.fail gives success=False and value=None, and its
\* error_message is the error_message argument when a non-empty one is
\* given, else str(error) when an error is given, else "Unknown error";
\* Result.ok gives success=True with error and error_message None
C23_FailMessage ==
    /\ OkShape
    /\ FailShape
    /\ core_call.op = "Result.fail" =>
          core_call.result.error_message =
              IF core_call.error_message \notin {NoValue, ""}
              THEN core_call.error_message
              ELSE IF core_call.error # NoError THEN str(core_call.error)
              ELSE "Unknown error"

\* Result.fail was given an error and an empty error_message, and took the
\* text of the error
C23_Witness ==
    /\ core_call.op = "Result.fail"
    /\ core_call.error_message = ""
    /\ core_call.error # NoError
    /\ core_call.result.error_message = "Test error"

\* C26: the construction of a TokenManager succeeds for every model name
C26_ConstructionSucceeds ==
    core_call.op = "TokenManager" => ~core_call.outcome.raised

\* tokens of the contents of the first n messages, a message without the
\* key content counting for none
RECURSIVE ContentTokens(_, _)
ContentTokens(msgs, n) ==
    IF n = 0 THEN 0
    ELSE ContentTokens(msgs, n - 1)
         + (IF "content" \in DOMAIN msgs[n] THEN EncodedLen(msgs[n].content)
            ELSE 0)

\* C27: estimate_tokens(M) = 4 * len(M) + the encoded lengths of the
\* contents + 2; the empty list costs 2, the estimate of A ++ B is the
\* estimate of A plus that of B minus 2, and a message without the key
\* content costs 4
C27_EstimateFormula ==
    core_call.op = "estimate_tokens" =>
        LET M == core_call.messages
        IN  /\ core_call.tokens = 4 * Len(M) + ContentTokens(M, Len(M)) + 2
            /\ M = <<>> => core_call.tokens = 2
            /\ \A k \in 0..Len(M) :
                  core_call.tokens = estimate_tokens(SubSeq(M, 1, k))
                                     + estimate_tokens(SubSeq(M, k + 1, Len(M)))
                                     - 2
            /\ \A i \in 1..Len(M) :
                  "content" \notin DOMAIN M[i] =>
                      estimate_tokens(<<M[i]>>) = 4 + 2

\* the estimate of a list of a message and a message without the key content
C27_Witness ==
    /\ core_call.op = "estimate_tokens"
    /\ Len(core_call.messages) = 2
    /\ "content" \notin DOMAIN core_call.messages[2]
    /\ core_call.messages[1] = [role |-> "user", content |-> "hi"]
    /\ core_call.tokens = 11

(* ---------------- properties of the single-session repository ---------- *)
\* C24: get_messages(chat_id, n) with a limit n >= 0 returns the oldest
\* min(n, total) messages of the conversation in ascending order, and only
\* without a limit all of them
C24_LimitReturnsOldest ==
    (repo_call.op = "get_messages" /\ repo_call.limit.given) =>
        LET all == StoredMessages(RepoDb, repo_call.chat_id)
            n == repo_call.limit.n
        IN  repo_call.ret = SubSeq(all, 1, IF n < Len(all) THEN n ELSE Len(all))

\* C25: the user_id stored for a conversation changes only in
\* get_or_create_conversation given a non-empty user_id other than the
\* stored one, and becomes the given one; every other call leaves it alone
C25_UserIdFrame ==
    \A c \in RepoChats :
        LET before == FindByChatId(repo_call.before.conversations, c)
            after == FindByChatId(conversations, c)
            changes == /\ repo_call.op = "get_or_create_conversation"
                       /\ repo_call.chat_id = c
                       /\ repo_call.user_id \notin {NoUser, ""}
                       /\ repo_call.user_id # before[1].user_id
        IN  (repo_call.op # "none" /\ before # <<>>) =>
                /\ after # <<>>
                /\ after[1].user_id = IF changes THEN repo_call.user_id
                                      ELSE before[1].user_id

\* the conversation of alice was given the user_id bob
C25_Witness ==
    /\ repo_call.op = "get_or_create_conversation"
    /\ repo_call.user_id = "bob"
    /\ LET before == FindByChatId(repo_call.before.conversations,
                                  repo_call.chat_id)
           after == FindByChatId(conversations, repo_call.chat_id)
       IN  /\ before # <<>>
           /\ before[1].user_id = "alice"
           /\ after[1].user_id = "bob"

(* ------------------ properties of concurrent sessions ------------------ *)
\* session s is in add_message or clear_conversation, past the SELECT of
\* get_or_create_conversation and before its last commit
Mutating(s) ==
    /\ sess[s].op \in {"add_message", "clear_conversation"}
    /\ sess[s].pc \in {"commit", "body"}

\* C28: no two sessions are at once between the get-or-create read and the
\* commit of an add_message or clear_conversation for the same chat_id
C28_PerChatSerialized ==
    \A s, t \in Sessions :
        (s # t /\ Mutating(s) /\ Mutating(t)) => sess[s].chat # sess[t].chat

\* C29: every get_or_create_conversation call with a non-empty chat_id
\* returns the Conversation of that chat_id, whatever the other sessions do
C29_AlwaysReturnsConversation ==
    (last.op = "get_or_create_conversation" /\ last.chat # "") =>
        /\ last.outcome = "ok"
        /\ last.conv # <<>>
        /\ last.conv[1].chat_id = last.chat
        /\ last.conv[1].id = FindByChatId(conversations, last.chat)[1].id

\* session s returns from get_messages in this step
GetMessagesReturns(s) ==
    /\ sess[s].op = "get_messages" /\ sess[s].pc = "body"
    /\ sess'[s] = IdleSession

\* C30: a message that was in a conversation when a clear_conversation of
\* it completed is in the table at no later time, and in the list of no
\* get_messages that returns later, whatever was appended or in flight
C30_ClearedNeverReturned ==
    [][/\ \A i \in 1..Len(messages') : messages'[i].content \notin cleared'
       /\ \A s \in Sessions :
             GetMessagesReturns(s) =>
                 \A i \in 1..Len(last'.ret) :
                     last'.ret[i].content \notin cleared]_vars

\* a clear_conversation has deleted m1, and a get_messages that returned
\* after it gave m2 alone
C30_Witness ==
    /\ cleared = {"m1"}
    /\ last.op = "get_messages"
    /\ last.ret = <<[role |-> "user", content |-> "m2"]>>
    /\ \A s \in Sessions : sess[s].pc = "idle"

(* ----------------------- more trimmer properties ----------------------- *)
\* C33: trim_messages_to_fit applied to the list it returned, with the same
\* budget and the same preserve_system, returns that list again
C33_TrimIdempotent ==
    (ncalls >= 2 /\ trimInput = prevTrimmed /\ trimFlag = prevFlag) =>
        trimmed = prevTrimmed

\* a call that dropped messages and kept messages of different contents was
\* followed by a call on its result
C33_Witness ==
    /\ ncalls = 2
    /\ trimInput = prevTrimmed
    /\ trimFlag /\ prevFlag
    /\ Len(history) > Len(trimmed)
    /\ Len(trimmed) >= 2
    /\ trimmed = prevTrimmed
    /\ \E i \in 1..Len(trimmed) : trimmed[i].content # trimmed[Len(trimmed)].content

\* C34: the list the caller passed to trim_messages_to_fit has the same
\* elements in the same order after the call, for both values of
\* preserve_system
C34_CallerListUnchanged ==
    ncalls >= 1 => history = trimInput

\* the system messages, the candidates and the kept candidates of the
\* last call
PinnedOfCall == IF trimFlag THEN SystemMessages(trimInput) ELSE <<>>

CandidatesOfCall == IF trimFlag THEN NonSystemMessages(trimInput) ELSE trimInput

KeptOfCall == SubSeq(trimmed, Len(PinnedOfCall) + 1, Len(trimmed))

\* C38: when trim_messages_to_fit rejects a candidate, the estimate of the
\* output with that candidate added exceeds max_tokens
C38_RejectedWouldExceed ==
    (ncalls >= 1 /\ trimInput # <<>>
        /\ Len(KeptOfCall) < Len(CandidatesOfCall)) =>
        LET rejected == CandidatesOfCall[Len(CandidatesOfCall) - Len(KeptOfCall)]
        IN  estimate_tokens(PinnedOfCall \o <<rejected>> \o KeptOfCall)
                > tm_max_tokens

(* ------------------------ more store properties ------------------------ *)
\* C31: every Message row refers to a Conversation row that exists, also
\* while an add_message is in progress and after one has failed
C31_MessageHasConversation ==
    \A i \in 1..Len(messages) :
        \E j \in 1..Len(conversations) :
            conversations[j].id = messages[i].conversation_id

\* an add_message failed on the INSERT of its conversation, and the table
\* has a message
C31_Witness ==
    /\ last.op = "add_message"
    /\ last.outcome = "IntegrityError"
    /\ messages # <<>>

(* ------------- more properties of the single-session repository -------- *)
\* the call changed the conversation of its chat_id: a message was added,
\* the messages were cleared, or the user_id was replaced
Mutation ==
    \/ repo_call.op \in {"add_message", "clear_conversation"}
    \/ /\ repo_call.op = "get_or_create_conversation"
       /\ FindByChatId(repo_call.before.conversations, repo_call.chat_id) # <<>>
       /\ FindByChatId(repo_call.before.conversations,
                       repo_call.chat_id)[1].user_id
              # FindByChatId(conversations, repo_call.chat_id)[1].user_id

\* C32: updated_at of a conversation never decreases, and after an
\* add_message, a clear_conversation or a change of user_id it is the time
\* of that call
C32_UpdatedAtAdvances ==
    /\ \A c \in RepoChats :
          (repo_call.op # "none"
              /\ FindByChatId(repo_call.before.conversations, c) # <<>>) =>
              FindByChatId(conversations, c)[1].updated_at
                  >= FindByChatId(repo_call.before.conversations, c)[1].updated_at
    /\ (repo_call.op # "none" /\ Mutation) =>
          FindByChatId(conversations, repo_call.chat_id)[1].updated_at
              = repo_call.time

ChatIdsOf(convs) == {convs[i].chat_id : i \in 1..Len(convs)}

\* C40: get_messages and clear_conversation called with a chat_id that has
\* no conversation insert a Conversation row for it, and get_messages
\* returns the empty list; for a chat_id that has one the conversations
\* stay as they are
C40_ReadsCreateConversation ==
    (repo_call.op \in {"get_messages", "clear_conversation"}) =>
        IF FindByChatId(repo_call.before.conversations, repo_call.chat_id) = <<>>
        THEN /\ Len(conversations) = Len(repo_call.before.conversations) + 1
             /\ SubSeq(conversations, 1, Len(conversations) - 1)
                    = repo_call.before.conversations
             /\ conversations[Len(conversations)].chat_id = repo_call.chat_id
             /\ repo_call.ret = <<>>
        ELSE conversations = repo_call.before.conversations

\* get_messages was called for a chat_id without a conversation, another
\* chat having one, and there are two conversations now
C40_Witness ==
    /\ repo_call.op = "get_messages"
    /\ ChatIdsOf(repo_call.before.conversations) = {"42"}
    /\ repo_call.chat_id = "43"
    /\ ChatIdsOf(conversations) = {"42", "43"}
    /\ Len(conversations) = 2

(* ---------------------- more properties of the client ------------------ *)
TranscriptionError == client_call.outcome.value.error.type

\* C35: transcribe_audio of a path that does not exist fails with
\* AudioFileNotFoundError, of an existing file larger than
\* max_audio_size_mb with AudioFileTooLargeError, in both cases without a
\* call of the provider; a file of at most the limit goes to the provider
C35_FileCheckedFirst ==
    client_call.op = "transcribe_audio" =>
        /\ ~client_call.outcome.raised
        /\ IF client_call.input = "missing"
           THEN /\ ~client_call.outcome.value.success
                /\ TranscriptionError = "AudioFileNotFoundError"
                /\ client_call.provider_calls = 0
           ELSE IF file_size_mb(client_call.input) > 25
           THEN /\ ~client_call.outcome.value.success
                /\ TranscriptionError = "AudioFileTooLargeError"
                /\ client_call.provider_calls = 0
           ELSE /\ TranscriptionError \notin {"AudioFileNotFoundError",
                                               "AudioFileTooLargeError"}
                /\ client_call.provider_calls = 1

\* transcribe_audio refused a file of 26 MB although the provider would
\* have transcribed it
C35_Witness ==
    /\ client_call.op = "transcribe_audio"
    /\ client_call.input = "too_large"
    /\ client_call.first.kind = "transcription"
    /\ TranscriptionError = "AudioFileTooLargeError"
    /\ client_call.provider_calls = 0

(* ---------------------- more properties of the bot --------------------- *)
\* C36: after /clear for a chat, clear_conversation was called exactly
\* once, with that chat's id, no message is stored for the chat, an
\* in-memory conversation the chat had is the system message alone, and a
\* chat that had none still has none
C36_ClearResets ==
    event.handler = "clear" =>
        /\ event.cleared_chats = <<event.chat>>
        /\ StoredMessages(TablesNow, event.chat) = <<>>
        /\ self_conversations[event.chat] =
              IF event.memory_at_call # <<>> THEN <<SystemPrompt>> ELSE <<>>

\* /clear of a chat whose in-memory conversation held an exchange
C36_Witness ==
    /\ event.handler = "clear"
    /\ Len(event.memory_at_call) >= 3
    /\ self_conversations[event.chat] = <<SystemPrompt>>

\* the two messages /imagine stores for a prompt
ImagineRows(prompt) ==
    <<[role |-> "user", content |-> "/imagine " \o strip(prompt)],
      [role |-> "assistant",
       content |-> "[Generated image for: \"" \o strip(prompt) \o "\"]"]>>

\* C37: /imagine sends the photo exactly when the image was generated and
\* downloaded with status 200; it then appends the user message and the
\* assistant message, in that order, to the stored messages of the chat,
\* and in every other case it leaves both tables as they were
C37_ImagineWritesLast ==
    [][event'.handler = "imagine" =>
          /\ event'.photo_sent =
                (/\ event'.called
                 /\ ~event'.failed
                 /\ ~event'.download.raised
                 /\ event'.download.status = 200)
          /\ IF event'.photo_sent
             THEN \E p \in BotPrompts :
                     /\ strip(p) # ""
                     /\ StoredMessages(Db(conversations', messages'), event'.chat)
                           = StoredMessages(TablesNow, event'.chat)
                                 \o ImagineRows(p)
             ELSE UNCHANGED <<conversations, messages>>]_vars

\* /imagine sent a photo and the stored messages of the chat end with the
\* user message and the assistant message
C37_Witness ==
    /\ event.handler = "imagine"
    /\ event.photo_sent
    /\ LET rows == StoredMessages(TablesNow, event.chat)
       IN  /\ Len(rows) >= 2
           /\ SubSeq(rows, Len(rows) - 1, Len(rows)) = ImagineRows(" a cat")

\* C39: whenever the text path calls the completion provider, the last
\* element of the submitted list is the user message of the update
C39_LastIsTrigger ==
    (event.handler = "text" /\ event.called) =>
        /\ event.submitted # <<>>
        /\ \E t \in BotTexts :
              event.submitted[Len(event.submitted)]
                  = [role |-> "user", content |-> t]
====
